---- MODULE Spec2Model ----
(***************************************************************************)
(* Model of the card identity-resolution and pricing pipeline of           *)
(* inventario_magic (src/actualizar_precios_mtgjson.py).                   *)
(*                                                                         *)
(* Strings are sequences of Unicode code points, so that normalisation,    *)
(* case mapping, trimming and word splitting are computed, not assumed.    *)
(* Dictionaries are sequences of <<key, value>> pairs in insertion order   *)
(* (Python dicts iterate in insertion order; an update keeps the key's     *)
(* position).  Money is fixed-point: USD prices are integer cents.         *)
(***************************************************************************)
EXTENDS Integers, Sequences, FiniteSets, TLC

VARIABLES
    (* -- name resolution / index building (SpecNames) -- *)
    identifiers,    \* the bulk reference dataset: sequence of card records, in dict order
    es_to_en,       \* dict: normalized Spanish name -> raw English name
    en_to_es,       \* dict: normalized English name -> raw Spanish name
    card_index,     \* dict: <<set code, normalized English name>> -> uuid
    npc,            \* position of the index/resolver harness
    q_name,         \* the name handed to resolve_name_to_english
    q_result,       \* what resolve_name_to_english returned
    (* -- configuration read from .env at import -- *)
    cfg,            \* USD_TO_CLP, SCRYFALL_USD_TO_CLP, GLOBAL_DISCOUNT_PERCENT, PRICE_MIN_CLP
    (* -- the two price resolvers (SpecPrice) -- *)
    ppc,            \* position of the pricing harness
    p_in,           \* the arguments of the last resolver call
    p_quote,        \* what the resolver returned
    (* -- one run of actualizar_inventario (Spec) -- *)
    shape,          \* top-level shape of the reference dataset file
    prices_data,    \* the bulk price table: uuid -> price entry
    csv_rows,       \* the inventory file as it was read
    rows,           \* the rows in memory, updated in place and written back
    pos,            \* the row the loop is at
    rpc,            \* position of the run: "start", "loop", "done", "crashed"
    updated,        \* counter of rows that got a price
    without_price,  \* counter of rows left without a price
    log,            \* per processed row: what was looked up and which sources were called
    (* -- one call of choose_best_scryfall_card (SpecChoose) -- *)
    candidates,     \* the printings returned by the catalog, in order
    c_req,          \* the requested set code and language
    best,           \* what choose_best_scryfall_card returned
    cpc,            \* position of the selector harness
    (* -- one run of build_inventory (SpecBuild) -- *)
    b_dir_exists,   \* whether the processed folder exists
    b_images,       \* the image files under it, in the order they are processed
    b_catalog,      \* what scryfall_search answers for each (name, set, lang)
    b_inventory,    \* the rows of the inventory file
    b_errors,       \* the rows of the error file
    b_existing,     \* existing_by_image: image_url -> row of the previous inventory
    b_next_id,      \* the next id to give out
    b_new_rows,     \* the rows built so far
    b_seen,         \* seen_images
    b_priced,       \* per priced image: the foil flag handed to compute_price_for_card
    b_sellers,      \* the folder of per-seller inventory files: file name -> rows
    b_pos,          \* the image the loop is at
    b_prev,         \* the inventory file as it was when this run began
    b_run,          \* the number of this run
    b_ids,          \* every <<id, image name>> given out so far, with those of the first file
    bpc,            \* position of the run: "start", "loop", "done"
    (* -- one run of auto_etiquetar_renombrar.main (SpecLabel) -- *)
    l_raw,          \* the image files under the raw folder, in path order, with the
                    \* answers vision and the catalog give for each
    l_moved,        \* the files moved to the processed folder so far, in order
    l_pos,          \* the image the loop is at
    lpc             \* position of the run: "start", "loop", "done"

namesVars == <<identifiers, es_to_en, en_to_es, card_index, npc, q_name, q_result>>

priceVars == <<ppc, p_in, p_quote>>

runVars == <<shape, prices_data, csv_rows, rows, pos, rpc, updated, without_price, log>>

chooseVars == <<candidates, c_req, best, cpc>>

buildVars == <<b_dir_exists, b_images, b_catalog, b_inventory, b_errors, b_existing,
               b_next_id, b_new_rows, b_seen, b_priced, b_sellers, b_pos, bpc,
               b_prev, b_run, b_ids>>

labelVars == <<l_raw, l_moved, l_pos, lpc>>

photoVars == <<chooseVars, buildVars, labelVars>>

vars == <<namesVars, cfg, priceVars, runVars, photoVars>>

----------------------------------------------------------------------------
(* Bounds of the model *)

MaxCards == 2
MaxNameLen == 2
MaxPriceSteps == 60     \* base prices range over 0, 5, ..., 5 * MaxPriceSteps cents
MaxRows == 2            \* rows of the inventory file

----------------------------------------------------------------------------
(* Characters: the code points the model's strings are made of.            *)
(*   32 ' '   65..90 'A'..'Z'   97..122 'a'..'z'                           *)
(*   170 FEMININE ORDINAL INDICATOR (compatibility-decomposes to 'a')      *)
(*   193 A-acute   225 a-acute (decompose to base letter + 769)            *)
(*   769 COMBINING ACUTE ACCENT (category Mn, combining class 230)         *)
(*   65039 VARIATION SELECTOR-16 (category Mn, combining class 0)          *)

Alphabet == {32} \cup (65..90) \cup (97..122) \cup {170, 193, 225, 769, 65039}

\* unicodedata.normalize("NFD", c) for one character
DecompCanonical(c) ==
    CASE c = 225 -> <<97, 769>>
      [] c = 193 -> <<65, 769>>
      [] OTHER   -> <<c>>

\* unicodedata.normalize("NFKD", c) for one character
DecompCompat(c) ==
    IF c = 170 THEN <<97>> ELSE DecompCanonical(c)

\* unicodedata.combining(c): the canonical combining class
combining(c) == IF c = 769 THEN 230 ELSE 0

\* unicodedata.category(c)
category(c) ==
    CASE c \in {769, 65039}          -> "Mn"
      [] c = 32                      -> "Zs"
      [] c \in (65..90) \cup {193}   -> "Lu"
      [] c \in (97..122) \cup {225}  -> "Ll"
      [] c = 170                     -> "Lo"

\* str.lower() on one character
LowerCh(c) ==
    CASE c \in 65..90 -> c + 32
      [] c = 193      -> 225
      [] OTHER        -> c

\* str.upper() on one character
UpperCh(c) ==
    CASE c \in 97..122 -> c - 32
      [] c = 225       -> 193
      [] OTHER         -> c

\* str.isspace() on one character
IsSpace(c) == c = 32

----------------------------------------------------------------------------
(* Strings *)

RECURSIVE NFD(_)
NFD(s) == IF s = <<>> THEN <<>> ELSE DecompCanonical(Head(s)) \o NFD(Tail(s))

RECURSIVE NFKD(_)
NFKD(s) == IF s = <<>> THEN <<>> ELSE DecompCompat(Head(s)) \o NFKD(Tail(s))

Lower(s) == [k \in DOMAIN s |-> LowerCh(s[k])]

Upper(s) == [k \in DOMAIN s |-> UpperCh(s[k])]

RECURSIVE LStrip(_)
LStrip(s) == IF s # <<>> /\ IsSpace(Head(s)) THEN LStrip(Tail(s)) ELSE s

RECURSIVE RStrip(_)
RStrip(s) ==
    IF s # <<>> /\ IsSpace(s[Len(s)]) THEN RStrip(SubSeq(s, 1, Len(s) - 1)) ELSE s

\* str.strip()
Strip(s) == RStrip(LStrip(s))

\* the first word of a string that starts with a non-space character
RECURSIVE FirstWord(_)
FirstWord(s) ==
    IF s = <<>> \/ IsSpace(Head(s)) THEN <<>> ELSE <<Head(s)>> \o FirstWord(Tail(s))

\* set(str.split()): the set of whitespace-separated words
RECURSIVE Words(_)
Words(s) ==
    LET t == LStrip(s)
    IN  IF t = <<>> THEN {}
        ELSE LET w == FirstWord(t)
             IN  {w} \cup Words(SubSeq(t, Len(w) + 1, Len(t)))

\* all strings over the character set cs of length at most n
RECURSIVE StringsUpTo(_, _)
StringsUpTo(cs, n) ==
    IF n = 0 THEN {<<>>}
    ELSE LET shorter == StringsUpTo(cs, n - 1)
         IN  shorter \cup {Append(s, c) : s \in shorter, c \in cs}

----------------------------------------------------------------------------
(* Dictionaries: sequences of <<key, value>> in insertion order *)

DictHas(d, k) == \E j \in DOMAIN d : d[j][1] = k

DictKeys(d) == {d[j][1] : j \in DOMAIN d}

\* d[k] for a key that is present
DictGet(d, k) == d[CHOOSE j \in DOMAIN d : d[j][1] = k][2]

\* d[k] = v
DictSet(d, k, v) ==
    IF DictHas(d, k)
    THEN [j \in DOMAIN d |-> IF d[j][1] = k THEN <<k, v>> ELSE d[j]]
    ELSE Append(d, <<k, v>>)

\* the value dict.get(k) returns when the key is absent
None == "None"

----------------------------------------------------------------------------
(* Utilities *)

normalize(s) ==
    IF s = <<>> THEN <<>>
    ELSE LET d == NFKD(s)
         IN  Strip(Lower(SelectSeq(d, LAMBDA c : combining(c) = 0)))

\* similarity(a, b) as the pair <<overlap, max(|A|, |B|)>>; <<0, 1>> stands for 0.0
similarity(a, b) ==
    LET na == normalize(a)
        nb == normalize(b)
        set_a == Words(na)
        set_b == Words(nb)
        ca == Cardinality(set_a)
        cb == Cardinality(set_b)
    IN  IF na = <<>> \/ nb = <<>> THEN <<0, 1>>
        ELSE IF set_a = {} \/ set_b = {} THEN <<0, 1>>
        ELSE <<Cardinality(set_a \cap set_b), IF ca >= cb THEN ca ELSE cb>>

normalize_name_for_lookup(s) ==
    IF s = <<>> THEN <<>>
    ELSE LET t == Strip(s)
         IN  Lower(SelectSeq(NFD(t), LAMBDA c : category(c) # "Mn"))

----------------------------------------------------------------------------
(* Dictionaries ES<->EN and the index (set, normalized English name) -> uuid *)

\* card_index[(set_code, en_norm)] = uuid, first writer kept (mutation of IndexPut)
IndexPutFirst(index, set_code, en_norm, uuid) ==
    IF DictHas(index, <<set_code, en_norm>>) THEN index
    ELSE Append(index, <<<<set_code, en_norm>>, uuid>>)

\* card_index[(set_code, en_norm)] = uuid
IndexPut(index, set_code, en_norm, uuid) ==
    DictSet(index, <<set_code, en_norm>>, uuid)

\* the loop over card.foreignData
RECURSIVE ForeignLoop(_, _, _, _)
ForeignLoop(fds, en_raw, en_norm, maps) ==
    IF fds = <<>> THEN maps
    ELSE LET fd == Head(fds)
             es_raw == fd.name
             es_norm == normalize(es_raw)
             after ==
                 IF fd.language = "Spanish" /\ es_norm # <<>>
                 THEN [maps EXCEPT !.es_to_en = DictSet(@, es_norm, en_raw),
                                   !.en_to_es = DictSet(@, en_norm, es_raw)]
                 ELSE maps
         IN  ForeignLoop(Tail(fds), en_raw, en_norm, after)

\* the loop over data.items()
RECURSIVE CardLoop(_, _)
CardLoop(cards, maps) ==
    IF cards = <<>> THEN maps
    ELSE LET card == Head(cards)
             en_raw == card.name
             en_norm == normalize(en_raw)
             set_code == Upper(card.setCode)
         IN  IF set_code = <<>> \/ en_norm = <<>>
             THEN CardLoop(Tail(cards), maps)
             ELSE CardLoop(Tail(cards),
                      ForeignLoop(card.foreignData, en_raw, en_norm,
                          [maps EXCEPT !.card_index =
                              IndexPut(@, set_code, en_norm, card.uuid)]))

build_translation_maps_and_index(data) ==
    CardLoop(data, [es_to_en |-> <<>>, en_to_es |-> <<>>, card_index |-> <<>>])

\* card_index.get((set_code, name_en_norm))
locate(index, set_code, name_en_norm) ==
    IF DictHas(index, <<set_code, name_en_norm>>)
    THEN DictGet(index, <<set_code, name_en_norm>>)
    ELSE None

----------------------------------------------------------------------------
(* Name resolution *)

\* the keys of the dict whose lookup form equals that of the name, by position
LookupHits(name, dict) ==
    {j \in DOMAIN dict :
        normalize_name_for_lookup(dict[j][1]) = normalize_name_for_lookup(name)}

MinOf(S) == CHOOSE j \in S : \A k \in S : j <= k

(* The similarity fallback that claim C5 describes (score by word overlap, best  *)
(* key, threshold 0.33).  The source has no such step: the five definitions     *)
(* below state what the claim expects of it.                                     *)

\* word-overlap score of the name against the key at position j
ScoreAt(name, dict, j) == similarity(name, dict[j][1])

\* a/b > c/d for score pairs
ScoreGreater(p, q) == p[1] * q[2] > q[1] * p[2]

\* the first position holding the maximum score
BestPos(name, dict) ==
    CHOOSE j \in DOMAIN dict :
        /\ \A k \in DOMAIN dict : ~ScoreGreater(ScoreAt(name, dict, k), ScoreAt(name, dict, j))
        /\ \A k \in DOMAIN dict :
              k < j => ScoreGreater(ScoreAt(name, dict, j), ScoreAt(name, dict, k))

\* the score exceeds the acceptance threshold 0.33
Accepted(p) == p[1] * 100 > 33 * p[2]

\* exact key, else the best-scoring key above the threshold, else the name itself
FuzzyResolve(name, dict) ==
    IF DictHas(dict, normalize(name)) THEN DictGet(dict, normalize(name))
    ELSE IF dict # <<>> /\ Accepted(ScoreAt(name, dict, BestPos(name, dict)))
    THEN dict[BestPos(name, dict)][2]
    ELSE name

resolve_name_to_english(name, dict) ==
    IF name = <<>> THEN <<>>
    ELSE IF DictHas(dict, name) THEN DictGet(dict, name)
    ELSE IF LookupHits(name, dict) # {} THEN dict[MinOf(LookupHits(name, dict))][2]
    ELSE name

----------------------------------------------------------------------------
(* Configuration.  Money is fixed-point: a base USD price is an integer number *)
(* of cents, a condition multiplier an integer number of tenths, the discount  *)
(* an integer percentage; adj_usd is in thousandths of a dollar and adj_clp in *)
(* units of 1/100000 peso, so that every product below is exact.               *)

DefaultUsdToClp == 950
DefaultDiscountPercent == 0
DefaultPriceMinClp == 500

DefaultConfig ==
    [USD_TO_CLP |-> DefaultUsdToClp, SCRYFALL_USD_TO_CLP |-> DefaultUsdToClp,
     GLOBAL_DISCOUNT_PERCENT |-> DefaultDiscountPercent,
     PRICE_MIN_CLP |-> DefaultPriceMinClp]

USD_TO_CLP == cfg.USD_TO_CLP
SCRYFALL_USD_TO_CLP == cfg.SCRYFALL_USD_TO_CLP
GLOBAL_DISCOUNT_PERCENT == cfg.GLOBAL_DISCOUNT_PERCENT
PRICE_MIN_CLP == cfg.PRICE_MIN_CLP

\* adj_clp units per peso: thousandths of a dollar times hundredths of the discount
ClpUnit == 1000 * 100

\* the order of preference reversed (mutation of PREFERRED_PROVIDERS)
PreferredProvidersReversed == <<"cardsphere", "cardmarket", "tcgplayer", "cardkingdom">>

PREFERRED_PROVIDERS == <<"cardkingdom", "tcgplayer", "cardmarket", "cardsphere">>

\* condition codes, as strings
NM == <<78, 77>>
M == <<77>>
EX == <<69, 88>>
SP == <<83, 80>>
VG == <<86, 71>>
MP == <<77, 80>>
HP == <<72, 80>>
POOR == <<80, 79, 79, 82>>

\* HP priced like POOR (mutation of CONDITION_MULTIPLIERS)
ConditionMultipliersHpAsPoor(code) ==
    CASE code \in {NM, M}    -> 10
      [] code \in {EX, SP}   -> 9
      [] code \in {VG, MP}   -> 8
      [] code \in {HP, POOR} -> 4
      [] OTHER               -> 10

\* CONDITION_MULTIPLIERS.get(code, 1.0), in tenths
CONDITION_MULTIPLIERS(code) ==
    CASE code \in {NM, M}  -> 10
      [] code \in {EX, SP} -> 9
      [] code \in {VG, MP} -> 8
      [] code = HP         -> 6
      [] code = POOR       -> 4
      [] OTHER             -> 10

----------------------------------------------------------------------------
(* Prices *)

\* a price value of a dataset: a number (in cents) or something float() rejects
Num(c) == [num |-> TRUE, cents |-> c]
Text == [num |-> FALSE, cents |-> 0]

NoQuote == [source |-> None]

\* the call does not return: an exception leaves the function
Raised == [source |-> None, raised |-> TRUE]

IsRaised(q) == "raised" \in DOMAIN q

IsQuote(q) == q.source # None

\* a None where the code expects a string (a column the CSV row does not have)
NullStr == <<0 - 1>>

\* the earliest date taken instead of the latest (mutation of MaxOf)
EarliestOf(S) == CHOOSE j \in S : \A k \in S : j <= k

\* sorted(keys)[-1]
MaxOf(S) == CHOOSE j \in S : \A k \in S : k <= j

\* condition multiplier, exchange rate and discount, with the floor added
\* instead of assigned (mutation of AdjustPrice)
AdjustPriceFloorAdded(base_usd, condition, rate, source) ==
    LET adj_usd == base_usd * CONDITION_MULTIPLIERS(Upper(condition))
        adj_clp == adj_usd * rate * (100 - GLOBAL_DISCOUNT_PERCENT)
    IN  [adj_usd |-> adj_usd,
         adj_clp |-> IF adj_clp < PRICE_MIN_CLP * ClpUnit
                     THEN adj_clp + PRICE_MIN_CLP * ClpUnit ELSE adj_clp,
         source |-> source]

\* condition multiplier, exchange rate and discount, without the floor
\* (mutation of AdjustPrice)
AdjustPriceNoFloor(base_usd, condition, rate, source) ==
    LET adj_usd == base_usd * CONDITION_MULTIPLIERS(Upper(condition))
        adj_clp == adj_usd * rate * (100 - GLOBAL_DISCOUNT_PERCENT)
    IN  [adj_usd |-> adj_usd, adj_clp |-> adj_clp, source |-> source]

\* the bulk source's exchange rate applied whatever the source (mutation of
\* AdjustPrice)
AdjustPriceBulkRate(base_usd, condition, rate, source) ==
    LET adj_usd == base_usd * CONDITION_MULTIPLIERS(Upper(condition))
        adj_clp == adj_usd * USD_TO_CLP * (100 - GLOBAL_DISCOUNT_PERCENT)
    IN  [adj_usd |-> adj_usd,
         adj_clp |-> IF adj_clp < PRICE_MIN_CLP * ClpUnit
                     THEN PRICE_MIN_CLP * ClpUnit ELSE adj_clp,
         source |-> source]

\* condition multiplier, exchange rate, global discount and minimum price
AdjustPrice(base_usd, condition, rate, source) ==
    IF condition = NullStr THEN Raised      \* None.upper(): AttributeError
    ELSE
    LET cond_mult == CONDITION_MULTIPLIERS(Upper(condition))
        adj_usd == base_usd * cond_mult
        adj_clp == adj_usd * rate * (100 - GLOBAL_DISCOUNT_PERCENT)
    IN  [adj_usd |-> adj_usd,
         adj_clp |-> IF adj_clp < PRICE_MIN_CLP * ClpUnit
                     THEN PRICE_MIN_CLP * ClpUnit ELSE adj_clp,
         source |-> source]

\* a dict that is missing or empty is falsy
Falsy(d) == DOMAIN d = {}

\* the normal finish requested whatever the foil flag (mutation of FinishKey)
FinishKeyAlwaysNormal(is_foil) == "normal"

\* finish_key = "foil" if is_foil else "normal"
FinishKey(is_foil) == IF is_foil THEN "foil" ELSE "normal"

get_price_from_mtgjson(price_entry, is_foil, condition) ==
    LET paper == IF "paper" \in DOMAIN price_entry THEN price_entry.paper ELSE <<>>
        present == {k \in DOMAIN PREFERRED_PROVIDERS : PREFERRED_PROVIDERS[k] \in DOMAIN paper}
    IN  IF present = {} THEN NoQuote
        ELSE
        LET provider_name == PREFERRED_PROVIDERS[MinOf(present)]
            provider_data == paper[provider_name]
        IN  IF Falsy(provider_data) THEN NoQuote
            ELSE
            LET retail == IF "retail" \in DOMAIN provider_data
                          THEN provider_data.retail ELSE <<>>
                finish_key == FinishKey(is_foil)
                other_key == IF finish_key = "normal" THEN "foil" ELSE "normal"
                first == IF finish_key \in DOMAIN retail THEN retail[finish_key] ELSE <<>>
                second == IF other_key \in DOMAIN retail THEN retail[other_key] ELSE <<>>
                prices_dict == IF ~Falsy(first) THEN first ELSE second
            IN  IF Falsy(prices_dict) THEN NoQuote
                ELSE
                LET last_date == MaxOf(DOMAIN prices_dict)
                    value == prices_dict[last_date]
                IN  IF ~value.num THEN NoQuote
                    ELSE AdjustPrice(value.cents, condition, USD_TO_CLP, provider_name)

\* the answer of the live service to one request: the outcome of the call
\* ("ok" for status 200 with a JSON object as body, "not_object" for status 200
\* with a JSON body that is no object, "bad_json" for status 200 with a body
\* that is no JSON, "status" for another status code, "exception" for a network
\* failure or timeout) and the two price fields, each absent/null, an empty
\* string, a number or a string float() rejects
Absent == [kind |-> "absent", cents |-> 0]
Empty == [kind |-> "empty", cents |-> 0]
NumStr(c) == [kind |-> "num", cents |-> c]
BadStr == [kind |-> "text", cents |-> 0]

FalsyStr(v) == v.kind \in {"absent", "empty"}

get_price_from_scryfall(name_en, set_code, is_foil, condition, resp) ==
    IF Strip(name_en) = <<>> \/ Lower(Strip(set_code)) = <<>> THEN NoQuote
    ELSE IF resp.outcome = "not_object" THEN Raised    \* data.get: AttributeError
    ELSE IF resp.outcome # "ok" THEN NoQuote
    ELSE
    LET primary == IF is_foil THEN resp.usd_foil ELSE resp.usd
        fallback == IF is_foil THEN resp.usd ELSE resp.usd_foil
        base_str == IF ~FalsyStr(primary) THEN primary ELSE fallback
    IN  IF FalsyStr(base_str) THEN NoQuote
        ELSE IF base_str.kind # "num" THEN NoQuote
        ELSE AdjustPrice(base_str.cents, condition, SCRYFALL_USD_TO_CLP, "scryfall")

\* the request ended without a usable answer: a network failure or timeout,
\* or a status other than 200; both return None inside the try block
FailedRequest(resp) == resp.outcome \in {"status", "exception"}

\* a failed request sent a second time (mutation of RequestsSent)
RequestsSentWithRetry(resp) == IF FailedRequest(resp) THEN 2 ELSE 1

\* the requests one call sends once its arguments are accepted: requests.get
\* stands once in the try block, with no loop around it
RequestsSent(resp) == 1

\* whether get_price_from_scryfall sends its request for these arguments
SendsRequest(name_en, set_code) ==
    Strip(name_en) # <<>> /\ Lower(Strip(set_code)) # <<>>

\* int(round(x)) for x = n / d >= 0.  The code computes x in binary floating
\* point: where the exact product lies halfway between two integers, the
\* float lies at, just below or just above the half, so either neighbour can
\* be the result; everywhere else the result is the nearest integer.
RoundChoices(n, d) ==
    LET q == n \div d
        r == n % d
    IN  IF 2 * r < d THEN {q}
        ELSE IF 2 * r > d THEN {q + 1}
        ELSE {q, q + 1}

\* int(round(price_clp))
RoundedClp(adj_clp) == RoundChoices(adj_clp, ClpUnit)

\* f"{price_usd:.2f}", as a number of cents
FormattedUsd(adj_usd) == RoundChoices(adj_usd, 10)

----------------------------------------------------------------------------
(* Inputs of the price resolvers *)

\* by default the live source uses the bulk source's rate
Configs ==
    {c \in [USD_TO_CLP : {DefaultUsdToClp, 900, 1000},
            SCRYFALL_USD_TO_CLP : {DefaultUsdToClp, 900, 1000},
            GLOBAL_DISCOUNT_PERCENT : {DefaultDiscountPercent, 10},
            PRICE_MIN_CLP : {DefaultPriceMinClp}] :
        c.SCRYFALL_USD_TO_CLP \in {c.USD_TO_CLP, 1000}}

BasePrices == {5 * k : k \in 0..MaxPriceSteps}

Conditions == {NM, EX, VG, HP, Lower(HP), POOR, <<80>>, NullStr}

Date1 == 20240101
Date2 == 20240102

Retail(r) == [retail |-> r]

\* price entries around one price dict d, with a decoy dict x
EntriesAround(d, x) ==
    { [paper |-> [cardkingdom |-> Retail([normal |-> d])]],
      [paper |-> [cardkingdom |-> Retail([foil |-> d])]],
      [paper |-> [cardkingdom |-> Retail([normal |-> d, foil |-> x])]],
      [paper |-> [cardkingdom |-> Retail([normal |-> <<>>, foil |-> d])]],
      [paper |-> [tcgplayer |-> Retail([normal |-> d]), cardsphere |-> Retail([normal |-> x])]],
      [paper |-> [cardkingdom |-> <<>>, tcgplayer |-> Retail([normal |-> d])]],
      [paper |-> [cardmarket |-> Retail(<<>>)]],
      [paper |-> [other |-> Retail([normal |-> d])]],
      [paper |-> <<>>] }

Decoy == (Date1 :> Num(100))

PriceEntries ==
    UNION {EntriesAround((Date1 :> Num(c)), Decoy) : c \in BasePrices}
    \cup EntriesAround((Date1 :> Num(100)) @@ (Date2 :> Num(30)), Decoy)
    \cup EntriesAround((Date1 :> Num(30)) @@ (Date2 :> Text), Decoy)
    \cup EntriesAround((Date1 :> Num(0 - 100)), Decoy)

LiveResponses ==
    {[outcome |-> o, usd |-> u, usd_foil |-> f] :
        o \in {"ok"}, u \in {NumStr(c) : c \in BasePrices} \cup {Absent}, f \in {Absent, NumStr(100)}}
    \cup {[outcome |-> o, usd |-> u, usd_foil |-> Absent] :
        o \in {"status", "exception", "bad_json", "not_object"}, u \in {Absent, NumStr(100)}}
    \cup {[outcome |-> "ok", usd |-> u, usd_foil |-> f] : u \in {Empty, BadStr}, f \in {BadStr, NumStr(100)}}

PriceIdle ==
    /\ ppc = "idle"
    /\ p_in = <<>>
    /\ p_quote = NoQuote

RunIdle ==
    /\ shape = "data"
    /\ prices_data = <<>>
    /\ csv_rows = <<>>
    /\ rows = <<>>
    /\ pos = 0
    /\ rpc = "idle"
    /\ updated = 0
    /\ without_price = 0
    /\ log = <<>>

NamesIdle ==
    /\ identifiers = <<>>
    /\ es_to_en = <<>>
    /\ en_to_es = <<>>
    /\ card_index = <<>>
    /\ npc = "idle"
    /\ q_name = <<>>
    /\ q_result = <<>>

ChooseIdle ==
    /\ candidates = <<>>
    /\ c_req = <<>>
    /\ best = None
    /\ cpc = "idle"

BuildIdle ==
    /\ b_dir_exists = FALSE
    /\ b_images = <<>>
    /\ b_catalog = <<>>
    /\ b_inventory = <<>>
    /\ b_errors = <<>>
    /\ b_existing = <<>>
    /\ b_next_id = 0
    /\ b_new_rows = <<>>
    /\ b_seen = {}
    /\ b_priced = <<>>
    /\ b_sellers = <<>>
    /\ b_pos = 0
    /\ bpc = "idle"
    /\ b_prev = <<>>
    /\ b_run = 0
    /\ b_ids = {}

LabelIdle ==
    /\ l_raw = <<>>
    /\ l_moved = <<>>
    /\ l_pos = 0
    /\ lpc = "idle"

PhotoIdle == ChooseIdle /\ BuildIdle /\ LabelIdle

----------------------------------------------------------------------------
(* SpecPrice: one call of a price resolver under a configuration *)

InitPrice ==
    /\ cfg \in Configs
    /\ ppc = "start"
    /\ p_in = <<>>
    /\ p_quote = NoQuote
    /\ NamesIdle
    /\ RunIdle
    /\ PhotoIdle

PriceBulk ==
    /\ ppc = "start"
    /\ \E price_entry \in PriceEntries, is_foil \in BOOLEAN, condition \in Conditions :
          /\ p_in' = [resolver |-> "mtgjson", price_entry |-> price_entry,
                      is_foil |-> is_foil, condition |-> condition]
          /\ p_quote' = get_price_from_mtgjson(price_entry, is_foil, condition)
    /\ ppc' = "priced"
    /\ UNCHANGED photoVars
    /\ UNCHANGED <<namesVars, cfg, runVars>>

PriceLive ==
    /\ ppc = "start"
    /\ \E resp \in LiveResponses, is_foil \in BOOLEAN, condition \in Conditions :
          /\ p_in' = [resolver |-> "scryfall", resp |-> resp,
                      is_foil |-> is_foil, condition |-> condition]
          /\ p_quote' = get_price_from_scryfall(<<98>>, <<120>>, is_foil, condition, resp)
    /\ ppc' = "priced"
    /\ UNCHANGED photoVars
    /\ UNCHANGED <<namesVars, cfg, runVars>>

NextPrice == PriceBulk \/ PriceLive

SpecPrice == InitPrice /\ [][NextPrice]_vars

----------------------------------------------------------------------------
(* Inputs of the index builder and of the name resolver *)

Spanish(n) == [language |-> "Spanish", name |-> n]
French(n)  == [language |-> "French", name |-> n]

\* card records of the bulk reference dataset (the uuid, a string, is added by position)
CardPool ==
    { [name |-> <<66>>, setCode |-> <<120>>,     foreignData |-> <<Spanish(<<225>>)>>],
      [name |-> <<98>>, setCode |-> <<88>>,      foreignData |-> <<Spanish(<<97, 65039>>)>>],
      [name |-> <<120>>, setCode |-> <<120>>,
       foreignData |-> <<French(<<97>>), Spanish(<<97, 32, 98>>)>>],
      [name |-> <<32>>, setCode |-> <<120>>,     foreignData |-> <<Spanish(<<98>>)>>],
      [name |-> <<66>>, setCode |-> <<>>,        foreignData |-> <<Spanish(<<98>>)>>],
      [name |-> <<88>>, setCode |-> <<120, 32>>, foreignData |-> <<Spanish(<<170>>)>>] }

WithUuid(cards) ==
    [k \in DOMAIN cards |->
        [uuid |-> ToString(k), name |-> cards[k].name, setCode |-> cards[k].setCode,
         foreignData |-> cards[k].foreignData]]

SeqsUpTo(S, n) == UNION {[1..m -> S] : m \in 0..n}

Datasets == {WithUuid(cards) : cards \in SeqsUpTo(CardPool, MaxCards)}

QueryAlphabet == {32, 65, 97, 98, 170, 225, 65039}

QueryNames == StringsUpTo(QueryAlphabet, MaxNameLen)

----------------------------------------------------------------------------
(* SpecNames: build the maps from a dataset, then resolve names against them *)

InitNames ==
    /\ identifiers \in Datasets
    /\ es_to_en = <<>>
    /\ en_to_es = <<>>
    /\ card_index = <<>>
    /\ npc = "load"
    /\ q_name = <<>>
    /\ q_result = <<>>
    /\ cfg = DefaultConfig
    /\ PriceIdle
    /\ RunIdle
    /\ PhotoIdle

BuildIndex ==
    /\ npc = "load"
    /\ LET maps == build_translation_maps_and_index(identifiers)
       IN  /\ es_to_en' = maps.es_to_en
           /\ en_to_es' = maps.en_to_es
           /\ card_index' = maps.card_index
    /\ npc' = "ready"
    /\ UNCHANGED photoVars
    /\ UNCHANGED <<identifiers, q_name, q_result, cfg, priceVars, runVars>>

Resolve ==
    /\ npc = "ready"
    /\ \E name \in QueryNames :
          /\ q_name' = name
          /\ q_result' = resolve_name_to_english(name, es_to_en)
    /\ npc' = "resolved"
    /\ UNCHANGED photoVars
    /\ UNCHANGED <<identifiers, es_to_en, en_to_es, card_index, cfg, priceVars, runVars>>

NextNames == BuildIndex \/ Resolve

SpecNames == InitNames /\ [][NextNames]_vars

----------------------------------------------------------------------------
(* actualizar_inventario: the loop over the rows of the inventory *)

\* strings of the inventory file
Str_manual == <<109, 97, 110, 117, 97, 108>>
Str_es == <<101, 115>>
Str_en == <<101, 110>>
Str_scryfall == <<115, 99, 114, 121, 102, 97, 108, 108>>
Str_cardkingdom == <<99, 97, 114, 100, 107, 105, 110, 103, 100, 111, 109>>
Str_tcgplayer == <<116, 99, 103, 112, 108, 97, 121, 101, 114>>
Str_cardmarket == <<99, 97, 114, 100, 109, 97, 114, 107, 101, 116>>
Str_cardsphere == <<99, 97, 114, 100, 115, 112, 104, 101, 114, 101>>
Str_foil == <<102, 111, 105, 108>>
Str_true == <<116, 114, 117, 101>>
Str_yes == <<121, 101, 115>>
Str_y == <<121>>
Str_1 == <<49>>

\* the characters of a provider label
SourceChars(source) ==
    CASE source = "cardkingdom" -> Str_cardkingdom
      [] source = "tcgplayer"   -> Str_tcgplayer
      [] source = "cardmarket"  -> Str_cardmarket
      [] source = "cardsphere"  -> Str_cardsphere
      [] source = "scryfall"    -> Str_scryfall

\* the manual check compared without lower-casing (mutation of IsManual)
IsManualCaseSensitive(row) == row.price_source = Str_manual

\* str(row.get("price_source", "")).lower() == "manual"
IsManual(row) == Lower(row.price_source) = Str_manual

\* the set check dropped (mutation of MissingSet)
MissingSetIgnored(set_code) == FALSE

\* not set_code
MissingSet(set_code) == set_code = <<>>

\* the live fallback taken whatever the bulk result (mutation of NeedsLive)
NeedsLiveAlways(quote) == TRUE

\* price_usd is None
NeedsLive(quote) == ~IsQuote(quote)

\* the index searched by name alone, any edition (mutation of PrintingOf)
PrintingOfAnyEdition(index, set_code, name_en_norm) ==
    IF \E j \in DOMAIN index : index[j][1][2] = name_en_norm
    THEN index[MinOf({j \in DOMAIN index : index[j][1][2] = name_en_norm})][2]
    ELSE None

\* uuid = card_index.get((set_code, name_en_norm))
PrintingOf(index, set_code, name_en_norm) == locate(index, set_code, name_en_norm)

\* is_foil_str in ("1", "true", "yes", "y", "foil")
ParseFoil(is_foil_str) ==
    Lower(is_foil_str) \in {Str_1, Str_true, Str_yes, Str_y, Str_foil}

\* the live service is not asked
NoResponse == [outcome |-> "none", usd |-> Absent, usd_foil |-> Absent]

\* what one iteration of the loop computes for a row, given the answer the live
\* service gives if it is asked
RowOutcome(row, resp) ==
    LET name == Strip(row.name)
        set_code == Upper(Strip(row.set))
        lang == Lower(row.lang)
        condition == row.condition
        is_foil == ParseFoil(row.is_foil)
        quiet == [uuid |-> None, name_en_raw |-> <<>>, table |-> FALSE,
                  bulk_called |-> FALSE, bulk_quote |-> FALSE,
                  live_calls |-> 0, live_requests |-> 0, quote |-> NoQuote]
    IN  IF IsManual(row) THEN quiet @@ [kind |-> "manual"]
        ELSE IF name = <<>> THEN quiet @@ [kind |-> "cleared"]
        ELSE IF MissingSet(set_code) THEN quiet @@ [kind |-> "cleared"]
        ELSE
        LET name_en_raw == IF lang = Str_es
                           THEN resolve_name_to_english(name, es_to_en) ELSE name
        IN  IF name_en_raw = <<>> THEN quiet @@ [kind |-> "cleared"]
            ELSE
            LET name_en_norm == normalize(name_en_raw)
                uuid == PrintingOf(card_index, set_code, name_en_norm)
                has_uuid == uuid # None /\ uuid # ""
                has_entry == has_uuid /\ uuid \in DOMAIN prices_data
                                /\ ~Falsy(prices_data[uuid])
                mtg_result == IF has_entry
                              THEN get_price_from_mtgjson(prices_data[uuid], is_foil, condition)
                              ELSE NoQuote
                live == ~IsRaised(mtg_result) /\ NeedsLive(mtg_result)
                scry_result == IF live
                               THEN get_price_from_scryfall(name_en_raw, set_code,
                                                            is_foil, condition, resp)
                               ELSE NoQuote
                quote == IF IsQuote(mtg_result) THEN mtg_result ELSE scry_result
            IN  [kind |-> IF IsRaised(mtg_result) \/ IsRaised(scry_result) THEN "raised"
                          ELSE IF IsQuote(quote) THEN "priced" ELSE "cleared",
                 uuid |-> uuid, name_en_raw |-> name_en_raw,
                 table |-> has_uuid, bulk_called |-> has_entry,
                 bulk_quote |-> IsQuote(mtg_result),
                 live_calls |-> IF live THEN 1 ELSE 0,
                 live_requests |-> IF live /\ SendsRequest(name_en_raw, set_code)
                                   THEN RequestsSent(resp) ELSE 0,
                 quote |-> quote]

\* the price fields emptied but the source label kept (mutation of Cleared)
ClearedPricesOnly(row) ==
    [row EXCEPT !.price_usd_ref = <<>>, !.price_clp = <<>>]

\* row["price_usd_ref"] = row["price_clp"] = row["price_source"] = ""
Cleared(row) ==
    [row EXCEPT !.price_usd_ref = <<>>, !.price_clp = <<>>, !.price_source = <<>>]

\* a price field holding a number
NumField(v) == <<v>>

----------------------------------------------------------------------------
(* Inputs of a run *)

RunCards ==
    << [name |-> <<66>>, setCode |-> <<120>>, foreignData |-> <<Spanish(<<225>>)>>],
       [name |-> <<66>>, setCode |-> <<121>>, foreignData |-> <<>>],
       [name |-> <<120>>, setCode |-> <<121>>, foreignData |-> <<Spanish(<<97, 32, 98>>)>>] >>

RunDatasets ==
    { WithUuid(RunCards), WithUuid(SubSeq(RunCards, 1, 1)), WithUuid(SubSeq(RunCards, 2, 3)) }

Entry(provider, finish, c) ==
    [paper |-> (provider :> Retail((finish :> (Date1 :> c))))]

\* top-level shapes of the reference dataset file: a JSON object with a "data"
\* mapping, a JSON object without it, a JSON value that is no object
DatasetShapes == {"data", "no_data", "not_object"}

\* identifiers.get("data", {})
DataOf(sh, ids) == IF sh = "data" THEN ids ELSE <<>>

RunPriceTables ==
    { ("1" :> Entry("cardkingdom", "normal", Num(250)))
          @@ ("2" :> Entry("tcgplayer", "foil", Num(30))),
      ("1" :> Entry("cardkingdom", "normal", Text)) @@ ("3" :> <<>>),
      <<>> }

RunConfigs ==
    { DefaultConfig,
      [USD_TO_CLP |-> 900, SCRYFALL_USD_TO_CLP |-> 1000,
       GLOBAL_DISCOUNT_PERCENT |-> 10, PRICE_MIN_CLP |-> DefaultPriceMinClp] }

Row(name, set, lang, condition, is_foil, price_source, usd, clp) ==
    [name |-> name, set |-> set, lang |-> lang, condition |-> condition,
     is_foil |-> is_foil, price_source |-> price_source,
     price_usd_ref |-> usd, price_clp |-> clp]

RowPool ==
    { Row(<<66>>, <<120>>, Str_en, NM, <<>>, Str_manual, NumField(123), NumField(9999)),
      Row(<<>>, <<>>, Str_es, NM, <<>>, Upper(Str_manual), NumField(123), <<>>),
      Row(<<66>>, <<32>>, Str_en, NM, <<>>, Str_scryfall, NumField(123), NumField(9999)),
      Row(<<32>>, <<120>>, Str_en, NM, <<>>, <<>>, NumField(123), NumField(9999)),
      Row(<<193>>, <<120, 32>>, Upper(Str_es), Lower(HP), <<>>, <<>>, <<>>, <<>>),
      Row(<<98>>, <<121>>, Str_en, NM, Upper(Str_true), Str_cardkingdom, <<>>, <<>>),
      Row(<<98>>, <<120>>, Str_en, EX, <<>>, <<32>> \o Str_manual, NumField(123), NumField(9999)),
      Row(<<97, 98>>, <<121>>, Str_es, NM, Str_1, <<>>, <<>>, <<>>),
      Row(<<120>>, <<120>>, Str_en, NM, <<>>, <<>>, <<>>, <<>>),
      Row(<<66>>, <<120>>, Str_en, NullStr, <<>>, <<>>, <<>>, NumField(9999)) }

RunLiveResponses ==
    { [outcome |-> "ok", usd |-> NumStr(30), usd_foil |-> Absent],
      [outcome |-> "ok", usd |-> NumStr(206), usd_foil |-> NumStr(250)],
      [outcome |-> "status", usd |-> Absent, usd_foil |-> Absent],
      [outcome |-> "exception", usd |-> Absent, usd_foil |-> Absent],
      [outcome |-> "not_object", usd |-> Absent, usd_foil |-> Absent] }

----------------------------------------------------------------------------
(* Spec: one run of actualizar_inventario *)

Init ==
    /\ shape \in DatasetShapes
    /\ identifiers \in IF shape = "data" THEN RunDatasets ELSE {<<>>}
    /\ prices_data \in IF shape = "data" THEN RunPriceTables ELSE {<<>>}
    /\ cfg \in IF shape = "data" /\ identifiers = WithUuid(RunCards)
               THEN RunConfigs ELSE {DefaultConfig}
    /\ csv_rows \in SeqsUpTo(RowPool, MaxRows)
    /\ es_to_en = <<>>
    /\ en_to_es = <<>>
    /\ card_index = <<>>
    /\ npc = "load"
    /\ q_name = <<>>
    /\ q_result = <<>>
    /\ rows = <<>>
    /\ pos = 0
    /\ rpc = "start"
    /\ updated = 0
    /\ without_price = 0
    /\ log = <<>>
    /\ PriceIdle
    /\ PhotoIdle

\* the files are loaded, the maps built and the inventory read; a dataset
\* that is no JSON object ends the run with an exception
Load ==
    /\ rpc = "start"
    /\ IF shape = "not_object"
       THEN /\ rpc' = "crashed"
            /\ UNCHANGED <<es_to_en, en_to_es, card_index, npc, rows, pos>>
       ELSE /\ LET maps == build_translation_maps_and_index(DataOf(shape, identifiers))
               IN  /\ es_to_en' = maps.es_to_en
                   /\ en_to_es' = maps.en_to_es
                   /\ card_index' = maps.card_index
            /\ npc' = "ready"
            /\ rows' = csv_rows
            /\ pos' = 1
            /\ rpc' = "loop"
    /\ UNCHANGED photoVars
    /\ UNCHANGED <<identifiers, q_name, q_result, cfg, priceVars, shape, prices_data,
                   csv_rows, updated, without_price, log>>

\* one iteration of the loop over the rows
ProcessRow ==
    /\ rpc = "loop"
    /\ pos <= Len(rows)
    /\ \E row \in {rows[pos]} :
       \E asked \in {RowOutcome(row, NoResponse).live_requests = 1} :
       \E resp \in IF asked THEN RunLiveResponses ELSE {NoResponse} :
       \E o \in {RowOutcome(row, resp)} :
          /\ log' = Append(log, [uuid |-> o.uuid, name_en_raw |-> o.name_en_raw,
                                 table |-> o.table, bulk_called |-> o.bulk_called,
                                 bulk_quote |-> o.bulk_quote, live_calls |-> o.live_calls,
                                 live_requests |-> o.live_requests, kind |-> o.kind,
                                 no_record |-> resp.outcome = "status",
                                 failed |-> FailedRequest(resp)])
          /\ rpc' = IF o.kind = "raised" THEN "crashed" ELSE rpc
          /\ CASE o.kind = "manual" ->
                     UNCHANGED <<rows, updated, without_price>>
               [] o.kind = "raised" ->
                     UNCHANGED <<rows, updated, without_price>>
               [] o.kind = "cleared" ->
                     /\ rows' = [rows EXCEPT ![pos] = Cleared(row)]
                     /\ without_price' = without_price + 1
                     /\ UNCHANGED updated
               [] o.kind = "priced" ->
                     /\ \E usd \in FormattedUsd(o.quote.adj_usd),
                           clp \in RoundedClp(o.quote.adj_clp) :
                           rows' = [rows EXCEPT ![pos] =
                               [row EXCEPT !.price_usd_ref = NumField(usd),
                                           !.price_clp = NumField(clp),
                                           !.price_source = SourceChars(o.quote.source)]]
                     /\ updated' = updated + 1
                     /\ UNCHANGED without_price
    /\ pos' = pos + 1
    /\ UNCHANGED photoVars
    /\ UNCHANGED <<namesVars, cfg, priceVars, shape, prices_data, csv_rows>>

\* the rows are written back to the inventory file
WriteBack ==
    /\ rpc = "loop"
    /\ pos > Len(rows)
    /\ rpc' = "done"
    /\ UNCHANGED photoVars
    /\ UNCHANGED <<namesVars, cfg, priceVars, shape, prices_data, csv_rows, rows, pos,
                   updated, without_price, log>>

Next == Load \/ ProcessRow \/ WriteBack

Spec == Init /\ [][Next]_vars

----------------------------------------------------------------------------
(* construir_inventario_desde_fotos.py: choosing a printing among candidates *)

MaxCandidates == 2      \* length of the candidate list

Str_token == <<116, 111, 107, 101, 110>>
Str_core == <<99, 111, 114, 101>>
Str_expansion == <<101, 120, 112, 97, 110, 115, 105, 111, 110>>
Str_promo == <<112, 114, 111, 109, 111>>
Str_ab == <<97, 98>>
Str_cd == <<99, 100>>

\* safe_float's None
NoFloat == [num |-> FALSE, cents |-> 0]

\* safe_float(v): None for "", None and text that float() rejects
safe_float(v) == IF v.kind = "num" THEN Num(v.cents) ELSE NoFloat

\* (x or "") for a string x that may be None or missing
OrEmpty(s) == IF s = NullStr THEN <<>> ELSE s

\* a catalog entry: the fields of a Scryfall card object the program reads;
\* the legacy flags foil and nonfoil are "true", "false" or "missing"
Card(set, lang, set_type, usd, usd_foil, eur, finishes, foil, nonfoil) ==
    [set |-> set, lang |-> lang, set_type |-> set_type,
     prices |-> [usd |-> usd, usd_foil |-> usd_foil, eur |-> eur],
     finishes |-> finishes, foil |-> foil, nonfoil |-> nonfoil]

\* the function's None
NoCard == [id |-> 0]

\* the identity of the k-th dict of a list
WithId(cards) == [k \in DOMAIN cards |-> [id |-> k] @@ cards[k]]

\* a numeric price in any currency of the entry
HasAnyPrice(card) ==
    \E f \in DOMAIN card.prices : safe_float(card.prices[f]).num

\* usd_normal is not None or usd_foil is not None
HasUsdPrice(card) ==
    safe_float(card.prices.usd).num \/ safe_float(card.prices.usd_foil).num

\* the score of one candidate that is not a token
CardScore(card, set_code, lang) ==
    LET set_type == Lower(OrEmpty(card.set_type))
    IN  (IF Lower(OrEmpty(card.set)) = set_code THEN 10 ELSE 0)
      + (IF Lower(OrEmpty(card.lang)) = lang THEN 5 ELSE 0)
      + (IF HasUsdPrice(card) THEN 3 ELSE 0)
      + (IF set_type \in {Str_core, Str_expansion} THEN 1 ELSE 0)

\* the for loop, from candidate k on, with the best seen so far
RECURSIVE ChooseLoop(_, _, _, _, _, _)
ChooseLoop(cands, k, set_code, lang, bst, best_score) ==
    IF k > Len(cands) THEN bst
    ELSE IF Lower(OrEmpty(cands[k].set_type)) = Str_token
         THEN ChooseLoop(cands, k + 1, set_code, lang, bst, best_score)
    ELSE LET score == CardScore(cands[k], set_code, lang)
         IN  IF score > best_score
             THEN ChooseLoop(cands, k + 1, set_code, lang, cands[k], score)
             ELSE ChooseLoop(cands, k + 1, set_code, lang, bst, best_score)

choose_best_scryfall_card(cands, set_code, lang) ==
    IF cands = <<>> THEN NoCard
    ELSE ChooseLoop(cands, 1, Lower(OrEmpty(set_code)), Lower(OrEmpty(lang)), NoCard, 0 - 1)

----------------------------------------------------------------------------
(* SpecChoose: one call of choose_best_scryfall_card *)

\* a candidate of the selector: finishes play no part in it
Printing(set, lang, set_type, usd, usd_foil, eur) ==
    Card(set, lang, set_type, usd, usd_foil, eur, <<>>, "missing", "missing")

PrintingPool ==
    { Printing(Str_ab, Str_en, Str_expansion, NumStr(100), Absent, Absent),
      Printing(Upper(Str_ab), Str_en, Str_promo, Absent, Absent, NumStr(90)),
      Printing(Str_ab, Upper(Str_en), Str_expansion, Absent, Absent, Absent),
      Printing(Str_cd, Str_es, Str_core, Absent, NumStr(200), Absent),
      Printing(Str_ab, Str_en, Str_token, NumStr(100), Absent, Absent),
      Printing(Str_ab, Str_en, <<84>> \o Tail(Str_token), NumStr(100), NumStr(200), Absent),
      Printing(NullStr, NullStr, NullStr, Empty, BadStr, Absent),
      Printing(Str_cd, Str_en, Str_promo, NumStr(0), Absent, Absent) }

Requests ==
    { [set_code |-> Str_ab, lang |-> Str_en],
      [set_code |-> Upper(Str_ab), lang |-> Str_es],
      [set_code |-> <<>>, lang |-> Str_en],
      [set_code |-> NullStr, lang |-> NullStr] }

InitChoose ==
    /\ candidates \in {WithId(s) : s \in SeqsUpTo(PrintingPool, MaxCandidates)}
    /\ c_req \in Requests
    /\ best = NoCard
    /\ cpc = "ready"
    /\ cfg = DefaultConfig
    /\ NamesIdle
    /\ PriceIdle
    /\ RunIdle
    /\ BuildIdle
    /\ LabelIdle

Choose ==
    /\ cpc = "ready"
    /\ best' = choose_best_scryfall_card(candidates, c_req.set_code, c_req.lang)
    /\ cpc' = "done"
    /\ UNCHANGED <<namesVars, cfg, priceVars, runVars, buildVars, labelVars,
                   candidates, c_req>>

NextChoose == Choose

SpecChoose == InitChoose /\ [][NextChoose]_vars

----------------------------------------------------------------------------
(* construir_inventario_desde_fotos.py: foil flag and price of a printing *)

PhotoUsdToClp == 900        \* USD_TO_CLP when the environment does not set it
PhotoPriceFloorClp == 500   \* the minimum price of estimate_price_with_condition

Str_nonfoil == <<110, 111, 110, 102, 111, 105, 108>>
Str_etched == <<101, 116, 99, 104, 101, 100>>
Str_false == <<102, 97, 108, 115, 101>>
Str_available == <<97, 118, 97, 105, 108, 97, 98, 108, 101>>
Str_removed == <<114, 101, 109, 111, 118, 101, 100>>
Str_sold == <<115, 111, 108, 100>>
Str_legal == <<108, 101, 103, 97, 108>>
Str_Casual == <<67, 97, 115, 117, 97, 108>>
Str_modern == <<109, 111, 100, 101, 114, 110>>
Str_pioneer == <<112, 105, 111, 110, 101, 101, 114>>
Str_legacy == <<108, 101, 103, 97, 99, 121>>
Str_vintage == <<118, 105, 110, 116, 97, 103, 101>>
Str_commander == <<99, 111, 109, 109, 97, 110, 100, 101, 114>>
Str_standard == <<115, 116, 97, 110, 100, 97, 114, 100>>
Str_pauper == <<112, 97, 117, 112, 101, 114>>
Str_alchemy == <<97, 108, 99, 104, 101, 109, 121>>
Str_historic == <<104, 105, 115, 116, 111, 114, 105, 99>>

\* x in xs, for a list xs
InList(x, xs) == \E k \in DOMAIN xs : xs[k] = x

\* the multipliers of estimate_price_with_condition, in tenths
PhotoConditionMultipliers(cond_key) ==
    CASE cond_key \in {NM, M}  -> 10
      [] cond_key \in {EX, SP} -> 9
      [] cond_key \in {VG, MP} -> 8
      [] cond_key = HP         -> 6
      [] cond_key = POOR       -> 4
      [] OTHER                 -> 10

\* the pair no price is returned as
NoEstimate == [price_usd_ref |-> Empty, price_clp |-> Empty]

\* estimate_price_with_condition: the (price_usd_ref, price_clp) pairs the
\* floating-point computation can give; the arguments are price strings
estimate_price_with_condition(usd_normal, usd_foil, condition, is_foil) ==
    LET base_str == IF is_foil
                    THEN (IF ~FalsyStr(usd_foil) THEN usd_foil ELSE usd_normal)
                    ELSE (IF ~FalsyStr(usd_normal) THEN usd_normal ELSE usd_foil)
    IN  IF FalsyStr(base_str) THEN {NoEstimate}
        ELSE IF base_str.kind # "num" THEN {NoEstimate}
        ELSE
        LET cond_key == Upper(IF condition = <<>> THEN NM ELSE condition)
            multiplier == PhotoConditionMultipliers(cond_key)
            adjusted_usd == base_str.cents * multiplier        \* thousandths of a dollar
            adjusted_clp == adjusted_usd * PhotoUsdToClp       \* thousandths of a peso
            clps == IF adjusted_clp > 0 /\ adjusted_clp < PhotoPriceFloorClp * 1000
                    THEN {PhotoPriceFloorClp}
                    ELSE RoundChoices(adjusted_clp, 1000)
        IN  {[price_usd_ref |-> NumStr(u), price_clp |-> NumStr(c)] :
                u \in RoundChoices(adjusted_usd, 10), c \in clps}

\* compute_foil_flags: (has_foil, has_nonfoil)
compute_foil_flags(card_data) ==
    [has_foil |-> InList(Str_foil, card_data.finishes) \/ card_data.foil = "true",
     has_nonfoil |-> InList(Str_nonfoil, card_data.finishes) \/ card_data.nonfoil = "true"]

\* the flag of the filename taken as it is
AdjustKeepsFlag(is_foil, card_data) == is_foil

adjust_is_foil_with_scryfall(is_foil, card_data) ==
    LET flags == compute_foil_flags(card_data)
    IN  IF ~flags.has_foil /\ flags.has_nonfoil THEN FALSE
        ELSE IF is_foil /\ ~flags.has_foil THEN FALSE
        ELSE is_foil

\* (prices.get(k) or "")
OrEmptyPrice(v) == IF FalsyStr(v) THEN Empty ELSE v

\* compute_price_for_card: the (price_clp, price_usd_ref) pairs it can return;
\* the 0.0 of an unreliable price is written as the number 0
compute_price_for_card(card_data, condition, is_foil) ==
    LET prices == card_data.prices
        usd_normal == safe_float(prices.usd)
        usd_foil == safe_float(prices.usd_foil)
        flags == compute_foil_flags(card_data)
        price_reliable ==
            IF is_foil
            THEN IF usd_foil.num THEN ~flags.has_nonfoil
                 ELSE ~usd_normal.num
            ELSE IF usd_normal.num THEN TRUE
                 ELSE ~usd_foil.num
        is_foil_adj == adjust_is_foil_with_scryfall(is_foil, card_data)
    IN  {[price_clp |-> IF price_reliable THEN e.price_clp ELSE NumStr(0),
          price_usd_ref |-> e.price_usd_ref] :
            e \in estimate_price_with_condition(OrEmptyPrice(prices.usd),
                                                OrEmptyPrice(prices.usd_foil),
                                                condition, is_foil_adj)}

\* str.capitalize()
Capitalize(s) == IF s = <<>> THEN <<>> ELSE <<UpperCh(Head(s))>> \o Lower(Tail(s))

FormatPriority ==
    <<Str_modern, Str_pioneer, Str_legacy, Str_vintage, Str_commander,
      Str_standard, Str_pauper, Str_alchemy, Str_historic>>

RECURSIVE PickFrom(_, _)
PickFrom(legalities, k) ==
    IF k > Len(FormatPriority) THEN Str_Casual
    ELSE IF DictHas(legalities, FormatPriority[k])
            /\ DictGet(legalities, FormatPriority[k]) = Str_legal
         THEN Capitalize(FormatPriority[k])
    ELSE PickFrom(legalities, k + 1)

pick_format(legalities) == PickFrom(legalities, 1)

----------------------------------------------------------------------------
(* construir_inventario_desde_fotos.py: build_inventory *)

\* str.split(c)
RECURSIVE Split(_, _)
Split(s, c) ==
    IF \A k \in DOMAIN s : s[k] # c THEN <<s>>
    ELSE LET i == CHOOSE k \in DOMAIN s : s[k] = c /\ \A j \in 1..(k - 1) : s[j] # c
         IN  <<SubSeq(s, 1, i - 1)>> \o Split(SubSeq(s, i + 1, Len(s)), c)

\* c.join(segs)
RECURSIVE Join(_, _)
Join(segs, c) ==
    IF segs = <<>> THEN <<>>
    ELSE IF Len(segs) = 1 THEN segs[1]
    ELSE segs[1] \o <<c>> \o Join(Tail(segs), c)

\* str.lstrip(c)
RECURSIVE LStripCh(_, _)
LStripCh(s, c) == IF s # <<>> /\ Head(s) = c THEN LStripCh(Tail(s), c) ELSE s

\* seller name and phone from the first folder of the image's path; the
\* folder is NullStr for an image that lies directly in the base folder
SellerOf(seller_folder) ==
    LET segments == Split(seller_folder, 45)
    IN  IF seller_folder # NullStr /\ seller_folder # <<>> /\ Len(segments) >= 2
        THEN [seller_name |-> Strip(Join(SubSeq(segments, 1, Len(segments) - 1), 45)),
              seller_phone |-> Strip(LStripCh(segments[Len(segments)], 43))]
        ELSE [seller_name |-> <<>>, seller_phone |-> <<>>]

\* a row of the inventory file
InvRow(id, name, set, lang, condition, is_foil, format, quantity, price_clp, image_url, status, price_usd_ref, seller_name, seller_phone) ==
    [id |-> id, name |-> name, set |-> set, lang |-> lang, condition |-> condition,
     is_foil |-> is_foil, format |-> format, quantity |-> quantity,
     price_clp |-> price_clp, image_url |-> image_url, status |-> status,
     price_usd_ref |-> price_usd_ref, seller_name |-> seller_name,
     seller_phone |-> seller_phone]

\* the columns of the inventory file
HEADERS ==
    {"id", "name", "set", "lang", "condition", "is_foil", "format", "quantity", "price_clp",
     "image_url", "status", "price_usd_ref", "seller_name", "seller_phone"}

\* write_inventory: of every row the cells {h: r.get(h, "") for h in HEADERS};
\* a column the file had besides these is not written
write_inventory(file_rows) ==
    [k \in DOMAIN file_rows |->
        [h \in HEADERS |-> IF h \in DOMAIN file_rows[k] THEN file_rows[k][h] ELSE <<>>]]

\* load_existing_inventory: the loop over the rows of the file from row k on
RECURSIVE LoadExistingLoop(_, _, _, _)
LoadExistingLoop(file, k, existing, max_id) ==
    IF k > Len(file) THEN [existing |-> existing, max_id |-> max_id]
    ELSE
    LET row == file[k]
        image_url == Strip(row.image_url)
    IN  IF image_url = <<>> THEN LoadExistingLoop(file, k + 1, existing, max_id)
        ELSE IF row.id.kind = "text"     \* int(): ValueError
             THEN LoadExistingLoop(file, k + 1, DictSet(existing, image_url, row), max_id)
        ELSE LET id_ == IF row.id.kind = "num" THEN row.id.cents ELSE 0
             IN  LoadExistingLoop(file, k + 1, DictSet(existing, image_url, row),
                                  IF id_ > max_id THEN id_ ELSE max_id)

\* the rows indexed but the largest id not tracked (mutation of load_existing_inventory)
LoadExistingNoMax(file) ==
    [existing |-> LoadExistingLoop(file, 1, <<>>, 0).existing, max_id |-> 0]

\* load_existing_inventory; a missing file reads as no rows
load_existing_inventory(file) == LoadExistingLoop(file, 1, <<>>, 0)

\* the value a successfully parsed filename gives, and parse_filename's None
Info(name_raw, set_code, lang, condition, is_foil, quantity) ==
    [parsed |-> TRUE, name_raw |-> name_raw, set_code |-> set_code, lang |-> lang,
     condition |-> condition, is_foil |-> is_foil, quantity |-> quantity]

NoInfo == [parsed |-> FALSE]

\* to_int_or_zero(v) > 0 and str(to_int_or_zero(v)), for a price
PriceClpField(v) == IF v.kind = "num" /\ v.cents > 0 THEN NumStr(v.cents) ELSE Empty

\* to_float_or_zero(v) > 0 and its two-decimal form
PriceUsdField(v) == IF v.kind = "num" /\ v.cents > 0 THEN NumStr(v.cents) ELSE Empty

\* row_copy = dict(row); row_copy["status"] = "removed"
MarkRemoved(row) == [row EXCEPT !.status = Str_removed]

\* the rows of the previous inventory whose image was not seen, marked removed
RECURSIVE RemovedRows(_, _, _)
RemovedRows(existing, k, seen) ==
    IF k > Len(existing) THEN <<>>
    ELSE LET row == existing[k][2]
         IN  (IF existing[k][1] \notin seen /\ Lower(row.status) # Str_removed
              THEN <<MarkRemoved(row)>>
              ELSE <<>>) \o RemovedRows(existing, k + 1, seen)

\* write_seller_inventories, the first loop: the rows of each seller, removed
\* rows left out
RECURSIVE SellerInventories(_, _, _)
SellerInventories(new_rows, k, vendedores) ==
    IF k > Len(new_rows) THEN vendedores
    ELSE LET r == new_rows[k]
             key == <<Strip(r.seller_name), Strip(r.seller_phone)>>
         IN  IF Lower(r.status) = Str_removed
             THEN SellerInventories(new_rows, k + 1, vendedores)
             ELSE SellerInventories(new_rows, k + 1,
                    DictSet(vendedores, key,
                            IF DictHas(vendedores, key)
                            THEN Append(DictGet(vendedores, key), r)
                            ELSE <<r>>))

Str_inventario_ == <<105, 110, 118, 101, 110, 116, 97, 114, 105, 111, 95>>
Str_csv == <<46, 99, 115, 118>>
Str_Vendedor == <<86, 101, 110, 100, 101, 100, 111, 114>>
Str_sin_telefono == <<115, 105, 110, 95, 116, 101, 108, 101, 102, 111, 110, 111>>
Str_sin_vendedor == <<115, 105, 110, 95, 118, 101, 110, 100, 101, 100, 111, 114>>

\* the characters the slug keeps: digits, letters, "_" and "-"
SlugChar(c) == c \in (48..57) \cup (65..90) \cup (97..122) \cup {95, 45}

\* re.sub(r"[^0-9A-Za-z_-]+", "_", base): every run of other characters
\* becomes one "_"
RECURSIVE Slug(_, _)
Slug(base, in_run) ==
    IF base = <<>> THEN <<>>
    ELSE IF SlugChar(Head(base)) THEN <<Head(base)>> \o Slug(Tail(base), FALSE)
    ELSE (IF in_run THEN <<>> ELSE <<95>>) \o Slug(Tail(base), TRUE)

\* the name of a seller's file
SellerFileName(seller_name, seller_phone) ==
    IF seller_name = <<>> /\ seller_phone = <<>>
    THEN Str_inventario_ \o Str_sin_vendedor \o Str_csv
    ELSE LET base == (IF seller_name = <<>> THEN Str_Vendedor ELSE seller_name) \o <<45>>
                     \o (IF seller_phone = <<>> THEN Str_sin_telefono ELSE seller_phone)
         IN  Str_inventario_ \o Slug(base, FALSE) \o Str_csv

\* write_seller_inventories, the second loop: the file of every seller that
\* has a row is written over, with the columns of HEADERS as write_inventory
\* writes them; the other files of the folder are left alone
RECURSIVE WriteSellerFiles(_, _, _)
WriteSellerFiles(files, vendedores, k) ==
    IF k > Len(vendedores) THEN files
    ELSE WriteSellerFiles(DictSet(files,
                                  SellerFileName(vendedores[k][1][1], vendedores[k][1][2]),
                                  write_inventory(vendedores[k][2])),
                          vendedores, k + 1)

\* the seller folder after write_seller_inventories(new_rows)
write_seller_inventories(files, new_rows) ==
    WriteSellerFiles(files, SellerInventories(new_rows, 1, <<>>), 1)

----------------------------------------------------------------------------
(* SpecBuild: one run of build_inventory *)

MaxImages == 2      \* image files under the processed folder

\* a catalog entry as build_inventory reads it; set and lang are NullStr when
\* the entry has no such key, printed_name is empty when it has none
BuildCard(name, printed_name, set, lang, usd, usd_foil, finishes, foil, nonfoil, legalities) ==
    Card(set, lang, Str_expansion, usd, usd_foil, Absent, finishes, foil, nonfoil)
        @@ [name |-> name, printed_name |-> printed_name, legalities |-> legalities]

BuildCards ==
    { BuildCard(<<65>>, <<>>, Str_ab, Str_en, NumStr(100), NumStr(300),
                <<Str_nonfoil, Str_foil>>, "missing", "missing", <<<<Str_modern, Str_legal>>>>),
      BuildCard(<<65>>, <<>>, Str_cd, Str_en, NumStr(100), NumStr(300),
                <<Str_nonfoil>>, "false", "true", <<>>),
      BuildCard(<<66>>, <<>>, Str_ab, Str_en, Absent, NumStr(300),
                <<Str_foil>>, "true", "false", <<<<Str_pauper, Str_legal>>>>),
      BuildCard(<<66>>, <<>>, NullStr, NullStr, NumStr(100), NumStr(300),
                <<>>, "true", "false", <<>>),
      BuildCard(<<65>>, <<>>, Str_ab, Str_es, NumStr(100), Absent,
                <<Str_etched>>, "missing", "missing", <<>>),
      BuildCard(<<65>>, <<88>>, Str_ab, Str_es, Absent, Absent,
                <<>>, "missing", "missing",
                <<<<Str_commander, Str_token>>, <<Str_pauper, Str_legal>>>>) }

\* the image files: path relative to the base folder and what parse_filename
\* makes of the name
ImageFile(seller_folder, image_name, info) ==
    [seller_folder |-> seller_folder, image_name |-> image_name, info |-> info]

ImagePool ==
    { ImageFile(<<102, 45, 53>>, <<97>>, Info(<<65>>, Str_ab, Str_en, NM, TRUE, 1)),
      ImageFile(<<103, 45, 104, 45, 43, 54>>, <<97>>, Info(<<65>>, Str_ab, Str_en, NM, TRUE, 1)),
      ImageFile(<<102, 45, 53>>, <<98>>, Info(<<66>>, <<>>, Str_en, EX, FALSE, 2)),
      ImageFile(NullStr, <<99>>, NoInfo),
      ImageFile(<<103>>, <<100>>, Info(<<65>>, Str_ab, Str_en, HP, TRUE, 1)) }

\* a <= b in the order of str
RECURSIVE StrLeq(_, _)
StrLeq(a, b) ==
    IF a = <<>> THEN TRUE
    ELSE IF b = <<>> THEN FALSE
    ELSE IF Head(a) # Head(b) THEN Head(a) < Head(b)
    ELSE StrLeq(Tail(a), Tail(b))

\* sorted(..., key=lambda p: p.name.lower()) over distinct paths
ImageLists ==
    {s \in SeqsUpTo(ImagePool, MaxImages) :
        \A i, j \in DOMAIN s :
            i < j => /\ s[i] # s[j]
                     /\ StrLeq(Lower(s[i].image_name), Lower(s[j].image_name))}

\* the arguments scryfall_search is called with
SearchKeys ==
    {<<f.info.name_raw, f.info.set_code, f.info.lang>> : f \in {g \in ImagePool : g.info.parsed}}

PrevRow(id, image_url, status) ==
    InvRow(id, <<90>>, Str_cd, Str_en, NM, Str_false, Str_Casual, NumStr(1), NumStr(1000),
           image_url, status, NumStr(111), <<102>>, <<53>>)

\* a row of the file after actualizar_inventario wrote it: the updater adds
\* the column price_source to the header and to every row
WithSource(row, price_source) ==
    [h \in DOMAIN row \cup {"price_source"} |->
        IF h = "price_source" THEN price_source ELSE row[h]]

\* the inventory files a run can find: written by an earlier run, edited by
\* hand (a row twice, ids that are no numbers) or rewritten by the updater
PreviousInventories ==
    { <<>>,
      <<PrevRow(NumStr(9), <<98>>, Str_available), PrevRow(NumStr(6), <<98>>, Str_sold)>>,
      <<WithSource(PrevRow(NumStr(3), <<97>>, Str_available), Str_scryfall),
        WithSource(PrevRow(NumStr(5), <<122>>, Str_sold), Str_manual)>>,
      <<PrevRow(NumStr(3), <<97>>, Str_sold)>>,
      <<PrevRow(NumStr(2), <<98>>, <<>>), PrevRow(NumStr(7), <<122>>, Str_available)>>,
      <<PrevRow(BadStr, <<99>>, Str_available), PrevRow(NumStr(4), <<121>>, Upper(Str_removed)),
        PrevRow(Empty, <<>>, Str_available)>>,
      <<PrevRow(NumStr(1), <<97>>, Str_removed)>> }

\* an error file left by an earlier run
StaleErrors == <<[image_url |-> <<122>>, error |-> "unmapped", extra |-> <<90>>]>>

\* the numeric ids of a file's rows, each with the image it belongs to
IdsOf(file) ==
    {<<file[k].id.cents, Strip(file[k].image_url)>> :
        k \in {j \in DOMAIN file : file[j].id.kind = "num" /\ Strip(file[j].image_url) # <<>>}}

InitBuild ==
    /\ b_dir_exists \in BOOLEAN
    /\ b_images \in IF b_dir_exists THEN ImageLists ELSE {<<>>}
    /\ b_catalog \in [SearchKeys -> BuildCards \cup {NoCard}]
    /\ b_inventory \in PreviousInventories
    /\ b_errors = StaleErrors
    /\ b_existing = <<>>
    /\ b_next_id = 0
    /\ b_new_rows = <<>>
    /\ b_seen = {}
    /\ b_priced = <<>>
    /\ b_sellers \in {<<>>, write_seller_inventories(<<>>, b_inventory)}
    /\ b_pos = 0
    /\ bpc = "start"
    /\ b_prev = b_inventory
    /\ b_run = 1
    /\ b_ids = IdsOf(b_inventory)
    /\ cfg = DefaultConfig
    /\ NamesIdle
    /\ PriceIdle
    /\ RunIdle
    /\ ChooseIdle
    /\ LabelIdle

\* build_inventory up to the loop: the folder check, the reset of the error
\* file and load_existing_inventory
BuildStart ==
    /\ bpc = "start"
    /\ IF ~b_dir_exists
       THEN /\ bpc' = "done"
            /\ UNCHANGED <<b_errors, b_existing, b_next_id, b_pos>>
       ELSE \E loaded \in {load_existing_inventory(b_inventory)} :
            /\ b_errors' = <<>>
            /\ b_existing' = loaded.existing
            /\ b_next_id' = loaded.max_id + 1
            /\ b_pos' = 1
            /\ bpc' = "loop"
    /\ UNCHANGED <<b_dir_exists, b_images, b_catalog, b_inventory, b_new_rows, b_seen,
                   b_priced, b_sellers, b_prev, b_run, b_ids>>
    /\ UNCHANGED <<namesVars, cfg, priceVars, runVars, chooseVars, labelVars>>

\* the row build_inventory makes of a parsed image and its catalog entry
BaseRow(img, card_data, is_foil_adj, price) ==
    LET info == img.info
        seller == SellerOf(img.seller_folder)
    IN  InvRow(<<>>,
               IF card_data.printed_name # <<>> THEN card_data.printed_name
               ELSE IF card_data.name # <<>> THEN card_data.name
               ELSE info.name_raw,
               Upper(IF card_data.set = NullStr THEN info.set_code ELSE card_data.set),
               Lower(IF card_data.lang = NullStr THEN info.lang ELSE card_data.lang),
               info.condition,
               IF is_foil_adj THEN Str_true ELSE Str_false,
               pick_format(card_data.legalities),
               NumStr(info.quantity),
               PriceClpField(price.price_clp),
               img.image_name,
               Str_available,
               PriceUsdField(price.price_usd_ref),
               seller.seller_name,
               seller.seller_phone)

\* one pass of the loop over the image files
BuildImage ==
    /\ bpc = "loop"
    /\ b_pos <= Len(b_images)
    /\ LET img == b_images[b_pos]
           info == img.info
       IN  /\ b_seen' = b_seen \cup {img.image_name}
           /\ IF ~info.parsed
              THEN /\ b_errors' = Append(b_errors, [image_url |-> img.image_name,
                                                   error |-> "pattern", extra |-> <<>>])
                   /\ UNCHANGED <<b_new_rows, b_next_id, b_priced, b_ids>>
              ELSE
              LET card_data == b_catalog[<<info.name_raw, info.set_code, info.lang>>]
              IN  IF card_data = NoCard
                  THEN /\ b_errors' = Append(b_errors, [image_url |-> img.image_name,
                                                       error |-> "unmapped",
                                                       extra |-> info.name_raw])
                       /\ UNCHANGED <<b_new_rows, b_next_id, b_priced, b_ids>>
                  ELSE
                  \E is_foil_adj \in {adjust_is_foil_with_scryfall(info.is_foil, card_data)} :
                  \E price \in compute_price_for_card(card_data, info.condition, is_foil_adj) :
                  \E base_row \in {BaseRow(img, card_data, is_foil_adj, price)} :
                    /\ b_priced' = Append(b_priced, [image_url |-> img.image_name,
                                                    is_foil |-> is_foil_adj])
                    /\ IF DictHas(b_existing, img.image_name)
                       THEN LET existing == DictGet(b_existing, img.image_name)
                            IN  /\ b_new_rows' = Append(b_new_rows,
                                      [base_row EXCEPT
                                          !.id = IF FalsyStr(existing.id) THEN Empty
                                                 ELSE existing.id,
                                          !.status = IF existing.status = <<>>
                                                     THEN Str_available
                                                     ELSE existing.status])
                                /\ UNCHANGED <<b_next_id, b_ids>>
                       ELSE /\ b_new_rows' = Append(b_new_rows,
                                      [base_row EXCEPT !.id = NumStr(b_next_id)])
                            /\ b_next_id' = b_next_id + 1
                            /\ b_ids' = b_ids \cup {<<b_next_id, img.image_name>>}
                    /\ UNCHANGED b_errors
    /\ b_pos' = b_pos + 1
    /\ UNCHANGED <<b_dir_exists, b_images, b_catalog, b_inventory, b_existing, b_sellers, bpc,
                   b_prev, b_run>>
    /\ UNCHANGED <<namesVars, cfg, priceVars, runVars, chooseVars, labelVars>>

\* after the loop: the removed rows, write_inventory and write_seller_inventories
BuildFinish ==
    /\ bpc = "loop"
    /\ b_pos > Len(b_images)
    /\ \E all_rows \in {b_new_rows \o RemovedRows(b_existing, 1, b_seen)} :
        /\ b_new_rows' = all_rows
        /\ b_inventory' = write_inventory(all_rows)
        /\ b_sellers' = write_seller_inventories(b_sellers, all_rows)
    /\ bpc' = "done"
    /\ UNCHANGED <<b_dir_exists, b_images, b_catalog, b_errors, b_existing, b_next_id,
                   b_seen, b_priced, b_pos, b_prev, b_run, b_ids>>
    /\ UNCHANGED <<namesVars, cfg, priceVars, runVars, chooseVars, labelVars>>

NextBuild == BuildStart \/ BuildImage \/ BuildFinish

SpecBuild == InitBuild /\ [][NextBuild]_vars

----------------------------------------------------------------------------
(* SpecRebuild: build_inventory run again after images were added or deleted *)

MaxRuns == 2        \* runs of build_inventory in a row

\* the image lists of the runs: the files of one seller and a top-level file
RebuildLists ==
    {s \in ImageLists : \A i \in DOMAIN s : s[i].seller_folder \in {<<102, 45, 53>>, NullStr}}

InitRebuild ==
    /\ InitBuild
    /\ b_dir_exists
    /\ b_images \in RebuildLists
    /\ \A key \in SearchKeys : b_catalog[key] \in {NoCard, b_catalog[<<<<65>>, Str_ab, Str_en>>]}

\* image files are added to or deleted from the processed folder and
\* build_inventory is started again on the files the last run wrote
BuildAgain ==
    /\ bpc = "done"
    /\ b_dir_exists
    /\ b_run < MaxRuns
    /\ b_images' \in RebuildLists
    /\ b_prev' = b_inventory
    /\ b_run' = b_run + 1
    /\ b_new_rows' = <<>>
    /\ b_seen' = {}
    /\ b_priced' = <<>>
    /\ b_pos' = 0
    /\ bpc' = "start"
    /\ UNCHANGED <<b_dir_exists, b_catalog, b_inventory, b_errors, b_existing, b_next_id,
                   b_sellers, b_ids>>
    /\ UNCHANGED <<namesVars, cfg, priceVars, runVars, chooseVars, labelVars>>

NextRebuild == BuildStart \/ BuildImage \/ BuildFinish \/ BuildAgain

SpecRebuild == InitRebuild /\ [][NextRebuild]_vars

----------------------------------------------------------------------------
(* auto_etiquetar_renombrar.py: labelling and renaming the raw images *)

MaxRaw == 2             \* image files under the raw folder

\* confidences are hundredths: 0.7 is 70
FoilThreshold == 70
SetThreshold == 90

Str_NM_FOIL == <<78, 77, 95, 70, 79, 73, 76>>
Str_jpg == <<46, 106, 112, 103>>
Str_PNG == <<46, 80, 78, 71>>
Str_c17 == <<99, 49, 55>>

\* float(x or 0.0) with 0.0 for what float() rejects, on hundredths; v is a
\* JSON number or numeric string (kind "num"), a missing or null value, an
\* empty string or another string
ConfidenceOf(v) == IF v.kind = "num" THEN v.cents ELSE 0

\* the value clamped to [0, 1]
Clamp01(c) == IF c < 0 THEN 0 ELSE IF c > 100 THEN 100 ELSE c

refine_foil_decision(is_foil_vision, foil_confidence, card_data) ==
    LET finishes_lower == [k \in DOMAIN card_data.finishes |-> Lower(card_data.finishes[k])]
        scry_foil == card_data.foil = "true"
        scry_nonfoil == card_data.nonfoil = "true"
        foil_possible == \/ InList(Str_foil, finishes_lower)
                         \/ InList(Str_etched, finishes_lower)
                         \/ scry_foil
        fc == foil_confidence
        only_foil == foil_possible /\ ~scry_nonfoil /\ ~InList(Str_nonfoil, finishes_lower)
    IN  IF ~foil_possible THEN FALSE
        ELSE IF is_foil_vision /\ fc >= FoilThreshold THEN TRUE
        ELSE IF is_foil_vision /\ only_foil /\ fc >= FoilThreshold THEN TRUE
        ELSE FALSE

\* the words of s, in order: s.split()
RECURSIVE WordSeq(_)
WordSeq(s) ==
    LET t == LStrip(s)
    IN  IF t = <<>> THEN <<>>
        ELSE LET w == FirstWord(t)
             IN  <<w>> \o WordSeq(SubSeq(t, Len(w) + 1, Len(t)))

\* s.replace("/", " // ")
RECURSIVE ReplaceSlash(_)
ReplaceSlash(s) ==
    IF s = <<>> THEN <<>>
    ELSE (IF Head(s) = 47 THEN <<32, 47, 47, 32>> ELSE <<Head(s)>>) \o ReplaceSlash(Tail(s))

\* the segments of the new file name and the name itself
build_new_filename(ext, vision_data, card_data, lang_detected, set_code_vision, set_confidence, is_foil_vision) ==
    LET from_vision == Strip(OrEmpty(vision_data.name_detected))
        name_detected == IF from_vision # <<>> THEN from_vision
                         ELSE Strip(OrEmpty(card_data.name))
        display_name == Strip(ReplaceSlash(name_detected))
        set_vision == Upper(Strip(OrEmpty(set_code_vision)))
        set_conf == Clamp01(ConfidenceOf(set_confidence))
        set_code == IF set_vision # <<>> /\ SetThreshold <= set_conf /\ set_conf <= 100
                       /\ 2 <= Len(set_vision) /\ Len(set_vision) <= 5
                    THEN set_vision ELSE <<>>
        lang == Lower(IF lang_detected # <<>> THEN lang_detected
                      ELSE IF OrEmpty(card_data.lang) # <<>> THEN card_data.lang
                      ELSE Str_en)
        is_foil == is_foil_vision
        cond_segment == IF is_foil THEN Str_NM_FOIL ELSE NM
        sep == <<32, 45, 32>>
        base == display_name \o sep \o set_code \o sep \o lang \o sep
                    \o cond_segment \o sep \o Str_1
    IN  [display_name |-> display_name, set_code |-> set_code, lang |-> lang,
         cond_segment |-> cond_segment,
         filename |-> Join(WordSeq(base), 32) \o ext]

\* what vision answers for an image; a field the answer lacks is NullStr,
\* "missing" or Absent
Vision(name_detected, language, set_code, set_confidence, is_foil, foil_confidence) ==
    [name_detected |-> name_detected, language |-> language, set_code |-> set_code,
     set_confidence |-> set_confidence, is_foil |-> is_foil,
     foil_confidence |-> foil_confidence]

\* the catalog entry fetch_card_from_scryfall returns; NoCard for {}
LabelCard(name, lang, finishes, foil, nonfoil) ==
    [name |-> name, lang |-> lang, finishes |-> finishes, foil |-> foil, nonfoil |-> nonfoil]

RawImage(seller_folder, stem, ext, vision_data, card_data) ==
    [seller_folder |-> seller_folder, stem |-> stem, ext |-> ext,
     vision_data |-> vision_data, card_data |-> card_data]

\* the raw images a run can find, in path order
RawPool ==
    << RawImage(NullStr, <<97>>, Str_jpg,
                Vision(<<65>>, Str_en, Str_c17, NumStr(95), "true", NumStr(80)),
                LabelCard(<<65>>, Str_en, <<Str_nonfoil, Str_foil>>, "missing", "missing")),
       RawImage(NullStr, <<98>>, Str_jpg,
                Vision(<<65>>, Str_es, Str_c17, NumStr(50), "true", NumStr(50)),
                LabelCard(<<65>>, Str_en, <<Str_nonfoil, Str_foil>>, "missing", "missing")),
       RawImage(NullStr, <<99>>, Str_PNG,
                Vision(<<66, 47, 67>>, NullStr, <<120>>, NumStr(100), "true", NumStr(90)),
                LabelCard(<<66>>, Str_en, <<Str_nonfoil>>, "false", "true")),
       RawImage(<<102, 45, 53>>, <<97>>, Str_jpg,
                Vision(<<65>>, Str_en, NullStr, Absent, "false", NumStr(90)),
                LabelCard(<<65>>, Str_en, <<Str_foil>>, "true", "false")),
       RawImage(<<102, 45, 53>>, <<98>>, Str_jpg,
                Vision(NullStr, Str_en, Str_c17, NumStr(95), "true", NumStr(95)),
                LabelCard(<<65>>, Str_en, <<Str_foil>>, "true", "false")),
       RawImage(<<102, 45, 53>>, <<99>>, Str_jpg,
                Vision(<<32, 65, 32>>, Str_en, Str_c17, NumStr(90), "true", NumStr(95)),
                NoCard),
       RawImage(<<103>>, <<97>>, Str_jpg,
                Vision(<<65>>, Upper(Str_en), Str_c17, BadStr, "true", NumStr(150)),
                LabelCard(<<65>>, Str_en, <<Capitalize(Str_etched)>>, "missing", "missing")),
       RawImage(<<103>>, <<98>>, Str_jpg,
                Vision(<<65>>, Str_en, Str_c17, NumStr(95), "true", NumStr(70)),
                LabelCard(<<65>>, Str_en, <<>>, "true", "missing")),
       RawImage(<<103>>, <<99>>, Str_jpg,
                Vision(<<65>>, Str_en, Str_c17, NumStr(95), "true", NumStr(69)),
                LabelCard(<<65>>, Str_en, <<Str_foil>>, "missing", "missing")),
       RawImage(<<103>>, <<100>>, Str_jpg,
                Vision(<<65>>, Str_en, Str_c17, NumStr(95), "missing", BadStr),
                LabelCard(<<65>>, Str_en, <<Str_foil>>, "missing", "missing")) >>

\* the sub-list of pool made of the positions in S
RECURSIVE SubList(_, _)
SubList(pool, S) ==
    IF S = {} THEN <<>>
    ELSE LET k == MinOf(S) IN <<pool[k]>> \o SubList(pool, S \ {k})

InitLabel ==
    /\ l_raw \in {SubList(RawPool, S) : S \in {T \in SUBSET DOMAIN RawPool : Cardinality(T) <= MaxRaw}}
    /\ l_moved = <<>>
    /\ l_pos = 0
    /\ lpc = "start"
    /\ cfg = DefaultConfig
    /\ NamesIdle
    /\ PriceIdle
    /\ RunIdle
    /\ ChooseIdle
    /\ BuildIdle

\* the folders are made and the raw images listed; without images main returns
LabelStart ==
    /\ lpc = "start"
    /\ lpc' = IF l_raw = <<>> THEN "done" ELSE "loop"
    /\ l_pos' = 1
    /\ UNCHANGED <<namesVars, cfg, priceVars, runVars, chooseVars, buildVars, l_raw, l_moved>>

\* one iteration of the loop over the sorted images
LabelImage ==
    /\ lpc = "loop"
    /\ LET src == l_raw[l_pos]
           vision_data == src.vision_data
           name_detected == Strip(OrEmpty(vision_data.name_detected))
           lang == IF Strip(OrEmpty(vision_data.language)) # <<>>
                   THEN Strip(vision_data.language) ELSE Str_en
           set_code_vision == Upper(Strip(OrEmpty(vision_data.set_code)))
           set_confidence == vision_data.set_confidence
           is_foil_vision == vision_data.is_foil = "true"
           foil_confidence == Clamp01(ConfidenceOf(vision_data.foil_confidence))
           card_data == src.card_data
       IN  IF name_detected = <<>> \/ card_data = NoCard
           THEN UNCHANGED l_moved
           ELSE LET is_foil == refine_foil_decision(is_foil_vision, foil_confidence, card_data)
                    new == build_new_filename(Lower(src.ext), vision_data, card_data, lang,
                                              set_code_vision, set_confidence, is_foil_vision)
                IN  l_moved' = Append(l_moved,
                                      [src |-> l_pos, seller_folder |-> src.seller_folder,
                                       is_foil |-> is_foil] @@ new)
    /\ l_pos' = l_pos + 1
    /\ lpc' = IF l_pos = Len(l_raw) THEN "done" ELSE "loop"
    /\ UNCHANGED <<namesVars, cfg, priceVars, runVars, chooseVars, buildVars, l_raw>>

NextLabel == LabelStart \/ LabelImage

SpecLabel == InitLabel /\ [][NextLabel]_vars

----------------------------------------------------------------------------
(* Claims about a run of actualizar_inventario *)

\* the rows the loop has gone through (the last one unfinished after an
\* exception)
Processed == DOMAIN log

\* the row was marked manual in the inventory file
MarkedManual(i) == Lower(csv_rows[i].price_source) = Str_manual

\* the set code the row asks for
RequestedSet(i) == Upper(Strip(csv_rows[i].set))

\* C1: the token looked up for (row set code upper-cased, normalize(resolved
\* name)) is absent or the token of a dataset record of that very edition and
\* normalized name; a token of another edition is never returned.
C1_ExactEdition ==
    \A i \in Processed :
        log[i].uuid # None =>
            \E j \in DOMAIN identifiers :
                /\ identifiers[j].uuid = log[i].uuid
                /\ Upper(identifiers[j].setCode) = RequestedSet(i)
                /\ normalize(identifiers[j].name) = normalize(log[i].name_en_raw)

\* a token was found for a name that the dataset also holds in another edition
C1_Witness ==
    \E i \in Processed :
        /\ log[i].uuid # None
        /\ \E j \in DOMAIN identifiers :
              /\ normalize(identifiers[j].name) = normalize(log[i].name_en_raw)
              /\ Upper(identifiers[j].setCode) # RequestedSet(i)
              /\ identifiers[j].uuid # log[i].uuid

\* C2: if the bulk resolver returned a quote for a row, the live resolver is
\* not invoked for that row.
C2_NoLiveAfterBulk ==
    \A i \in Processed : log[i].bulk_quote => log[i].live_calls = 0

\* a row priced by the bulk resolver
C2_Witness ==
    \E i \in Processed :
        /\ log[i].bulk_called /\ log[i].bulk_quote
        /\ log[i].kind = "priced"
        /\ rows[i].price_source \in {Str_cardkingdom, Str_tcgplayer}

\* C3: a non-manual row whose set is empty after trimming ends with empty
\* price_usd_ref, price_clp and price_source, is counted as without price, and
\* neither the bulk price table nor the live resolver is consulted for it.
C3_NoSetNoPrice ==
    /\ \A i \in Processed :
          (~MarkedManual(i) /\ Strip(csv_rows[i].set) = <<>>) =>
              /\ rows[i].price_usd_ref = <<>>
              /\ rows[i].price_clp = <<>>
              /\ rows[i].price_source = <<>>
              /\ log[i].kind = "cleared"
              /\ ~log[i].table /\ ~log[i].bulk_called
              /\ log[i].live_calls = 0 /\ log[i].live_requests = 0
    /\ without_price = Cardinality({i \in Processed : log[i].kind = "cleared"})

\* a named, non-manual row without set that held prices before the run
C3_Witness ==
    \E i \in Processed :
        /\ ~MarkedManual(i)
        /\ Strip(csv_rows[i].set) = <<>>
        /\ Strip(csv_rows[i].name) # <<>>
        /\ csv_rows[i].price_clp # <<>>
        /\ rows[i].price_clp = <<>>
        /\ without_price >= 1

\* C4: a row whose price_source is "manual" in any letter case is left unchanged
\* and no source is queried for it.
C4_ManualUntouched ==
    \A i \in Processed :
        MarkedManual(i) =>
            /\ rows[i] = csv_rows[i]
            /\ ~log[i].table /\ ~log[i].bulk_called
            /\ log[i].live_calls = 0 /\ log[i].live_requests = 0

\* a run that ended with an upper-case MANUAL row without name still in place
C4_Witness ==
    /\ rpc = "done"
    /\ \E i \in Processed :
          /\ csv_rows[i].price_source = Upper(Str_manual)
          /\ Strip(csv_rows[i].name) = <<>>
          /\ rows[i].price_usd_ref # <<>>

----------------------------------------------------------------------------
(* Claims about name resolution and the index *)

Resolved == npc = "resolved"

Built == npc # "load"

\* C5: a name whose normalized form is not an exact key resolves to the
\* canonical name of the best-scoring key when that score exceeds 0.33, and to
\* itself only when no key exceeds 0.33 or the map is empty.
C5_FuzzyFallback ==
    (Resolved /\ ~DictHas(es_to_en, normalize(q_name)))
        => q_result = FuzzyResolve(q_name, es_to_en)

\* C6: a name whose normalized form equals a key of the map resolves to exactly
\* the canonical name mapped from that key.
C6_ExactMatch ==
    (Resolved /\ DictHas(es_to_en, normalize(q_name)))
        => q_result = DictGet(es_to_en, normalize(q_name))

\* C7: a non-empty name that shares no word with any key of the map resolves to
\* itself.
C7_UnrelatedUnchanged ==
    (Resolved /\ q_name # <<>>
       /\ \A k \in DictKeys(es_to_en) : Words(normalize(q_name)) \cap Words(normalize(k)) = {})
        => q_result = q_name

\* the key under which the record at position i is registered
KeyOf(i) == <<Upper(identifiers[i].setCode), normalize(identifiers[i].name)>>

\* the last record of the dataset registered under the key of record i
LastWithKey(i) ==
    CHOOSE j \in DOMAIN identifiers :
        /\ KeyOf(j) = KeyOf(i)
        /\ \A k \in DOMAIN identifiers : KeyOf(k) = KeyOf(i) => k <= j

\* C8 as stated: every record with a non-empty name and a non-empty setCode is
\* found under (setCode upper-cased, normalize(name)) with its own token.
C8_LookupOwnToken ==
    Built => \A i \in DOMAIN identifiers :
                (identifiers[i].name # <<>> /\ identifiers[i].setCode # <<>>)
                    => locate(card_index, KeyOf(i)[1], KeyOf(i)[2]) = identifiers[i].uuid

\* C8 amended: every record with a non-empty setCode and a name whose normalized
\* form is non-empty is found under (setCode upper-cased, normalize(name)) with the
\* token of the last record of the dataset that has that key: its own token
\* when no later record shares the key.
C8_LookupLastToken ==
    Built => \A i \in DOMAIN identifiers :
                (normalize(identifiers[i].name) # <<>> /\ identifiers[i].setCode # <<>>)
                    => locate(card_index, KeyOf(i)[1], KeyOf(i)[2])
                           = identifiers[LastWithKey(i)].uuid

\* two records share a key and the lookup returns the later one's token
C8_Witness ==
    /\ Built
    /\ \E i, j \in DOMAIN identifiers :
          /\ i < j
          /\ KeyOf(i) = KeyOf(j)
          /\ KeyOf(i)[1] # <<>> /\ KeyOf(i)[2] # <<>>
          /\ locate(card_index, KeyOf(i)[1], KeyOf(i)[2]) = identifiers[j].uuid

----------------------------------------------------------------------------
(* Claims about the pricing transformation *)

Priced == ppc = "priced" /\ IsQuote(p_quote)

\* the exchange rate of the resolver that was called
RateUsed == IF p_in.resolver = "mtgjson" THEN USD_TO_CLP ELSE SCRYFALL_USD_TO_CLP

\* the local price of the returned quote before the floor is applied
PreFloorClp == p_quote.adj_usd * RateUsed * (100 - GLOBAL_DISCOUNT_PERCENT)

\* C9: whenever either resolver returns a quote, its local price is at least
\* PRICE_MIN_CLP; a pre-floor local price of 300 with floor 500 yields 500.
C9_FloorEnforced ==
    Priced =>
        /\ p_quote.adj_clp >= PRICE_MIN_CLP * ClpUnit
        /\ (PreFloorClp = 300 * ClpUnit /\ PRICE_MIN_CLP = 500)
              => p_quote.adj_clp = 500 * ClpUnit

\* a quote of each resolver whose pre-floor local price is below the floor, one
\* of them exactly 300
C9_Witness ==
    /\ Priced
    /\ PreFloorClp = 300 * ClpUnit
    /\ PRICE_MIN_CLP = 500
    /\ p_quote.adj_clp = 500 * ClpUnit

\* the base USD price (cents) the returned quote was computed from
BaseUsed == p_quote.adj_usd \div CONDITION_MULTIPLIERS(Upper(p_in.condition))

\* the quote for another base price under the same condition, rate, discount, floor
QuoteFor(c) == AdjustPrice(c, p_in.condition, RateUsed, p_quote.source)

\* C10: for fixed condition, exchange rate, discount and floor the local price is
\* non-decreasing in the base USD price, also after rounding to an integer.
C10_Monotone ==
    Priced =>
        \A c \in BasePrices \ {0} :
            /\ (0 < BaseUsed /\ BaseUsed <= c) =>
                  /\ p_quote.adj_clp <= QuoteFor(c).adj_clp
                  /\ BaseUsed < c =>
                        \A v1 \in RoundedClp(p_quote.adj_clp), v2 \in RoundedClp(QuoteFor(c).adj_clp) :
                            v1 <= v2
            /\ (0 < c /\ c <= BaseUsed) =>
                  /\ QuoteFor(c).adj_clp <= p_quote.adj_clp
                  /\ c < BaseUsed =>
                        \A v1 \in RoundedClp(QuoteFor(c).adj_clp), v2 \in RoundedClp(p_quote.adj_clp) :
                            v1 <= v2

\* a quote above the floor next to a smaller base price whose quote is floored
C10_Witness ==
    /\ Priced
    /\ p_quote.adj_clp > PRICE_MIN_CLP * ClpUnit
    /\ \E c \in BasePrices \ {0} :
          /\ c < BaseUsed
          /\ QuoteFor(c).adj_clp = PRICE_MIN_CLP * ClpUnit
          /\ c * CONDITION_MULTIPLIERS(Upper(p_in.condition)) * RateUsed
                 * (100 - GLOBAL_DISCOUNT_PERCENT) < PRICE_MIN_CLP * ClpUnit

\* the numeric prices of one date-to-price table
TablePrices(t) == {t[d].cents : d \in {x \in DOMAIN t : t[x].num}}

\* the retail tables of one provider's data
RetailOf(provider_data) ==
    IF "retail" \in DOMAIN provider_data THEN provider_data.retail ELSE <<>>

\* every numeric price that occurs in the input of the resolver call
InputPrices ==
    IF p_in.resolver = "mtgjson"
    THEN LET paper == IF "paper" \in DOMAIN p_in.price_entry
                      THEN p_in.price_entry.paper ELSE <<>>
         IN  UNION {UNION {TablePrices(RetailOf(paper[p])[f]) : f \in DOMAIN RetailOf(paper[p])}
                        : p \in DOMAIN paper}
    ELSE {v.cents : v \in {x \in {p_in.resp.usd, p_in.resp.usd_foil} : x.kind = "num"}}

\* C11: every quote is self-consistent: its USD reference price is one base price
\* of the input times the condition multiplier, and its local price is that same
\* product times the source's exchange rate times (1 - discount), raised to the
\* floor, with no other adjustment on either resolver path.
C11_SelfConsistent ==
    Priced =>
        \E base \in InputPrices :
            /\ p_quote.adj_usd = base * CONDITION_MULTIPLIERS(Upper(p_in.condition))
            /\ p_quote.adj_clp =
                   IF PreFloorClp < PRICE_MIN_CLP * ClpUnit
                   THEN PRICE_MIN_CLP * ClpUnit ELSE PreFloorClp

\* a live quote above the floor under a configuration whose two rates differ,
\* for a condition that lowers the price
C11_Witness ==
    /\ Priced
    /\ p_in.resolver = "scryfall"
    /\ SCRYFALL_USD_TO_CLP # USD_TO_CLP
    /\ GLOBAL_DISCOUNT_PERCENT > 0
    /\ CONDITION_MULTIPLIERS(Upper(p_in.condition)) < 10
    /\ p_quote.adj_clp > PRICE_MIN_CLP * ClpUnit
    /\ p_quote.adj_clp = PreFloorClp

\* C12: get_price_from_scryfall never lets an exception escape: whatever the
\* outcome of the request and the condition value, it returns a quote or absent.
C12_LiveNeverRaises ==
    (ppc = "priced" /\ p_in.resolver = "scryfall") => ~IsRaised(p_quote)

\* C13: a reference dataset of the wrong top-level shape is a fatal input error:
\* the run aborts without processing any row and does not go on with an empty
\* index.
C13_MalformedDatasetFatal ==
    shape # "data" => (rpc \in {"start", "crashed"} /\ log = <<>>)

\* a call of the bulk resolver has returned or raised
BulkCalled == ppc = "priced" /\ p_in.resolver = "mtgjson"

\* the paper data of the price entry the bulk resolver was called with
PaperIn == IF "paper" \in DOMAIN p_in.price_entry THEN p_in.price_entry.paper ELSE <<>>

\* the numeric prices in the data of one provider
ProviderPrices(provider_data) ==
    UNION {TablePrices(RetailOf(provider_data)[f]) : f \in DOMAIN RetailOf(provider_data)}

\* C14: the provider whose data the bulk resolver uses, and whose label the
\* quote carries, is the earliest of cardkingdom, tcgplayer, cardmarket,
\* cardsphere that is present in the entry's paper data; the result is absent
\* when none of them is present.
C14_EarliestProvider ==
    BulkCalled =>
        LET order == <<"cardkingdom", "tcgplayer", "cardmarket", "cardsphere">>
            present == {k \in DOMAIN order : order[k] \in DOMAIN PaperIn}
        IN  /\ present = {} => p_quote = NoQuote
            /\ IsQuote(p_quote) =>
                  \E k \in present :
                      /\ \A j \in present : k <= j
                      /\ p_quote.source = order[k]
                      /\ \E base \in ProviderPrices(PaperIn[order[k]]) :
                            p_quote.adj_usd = base * CONDITION_MULTIPLIERS(Upper(p_in.condition))
            /\ \A k \in present :
                  ((\A j \in present : k <= j) /\ Falsy(PaperIn[order[k]]))
                      => p_quote = NoQuote

\* a quote labelled tcgplayer from an entry that also holds cardsphere data at
\* another price
C14_Witness ==
    /\ BulkCalled
    /\ IsQuote(p_quote)
    /\ p_quote.source = "tcgplayer"
    /\ "cardsphere" \in DOMAIN PaperIn
    /\ ProviderPrices(PaperIn.cardsphere) # ProviderPrices(PaperIn.tcgplayer)
    /\ CONDITION_MULTIPLIERS(Upper(p_in.condition)) = 10

\* the data of the provider the bulk resolver uses: the earliest present one
ProviderIn ==
    LET present == {k \in DOMAIN PREFERRED_PROVIDERS : PREFERRED_PROVIDERS[k] \in DOMAIN PaperIn}
    IN  IF present = {} THEN <<>> ELSE PaperIn[PREFERRED_PROVIDERS[MinOf(present)]]

\* the sub-table of a finish in the provider's retail data is present and non-empty
HasFinish(finish) ==
    finish \in DOMAIN RetailOf(ProviderIn) /\ ~Falsy(RetailOf(ProviderIn)[finish])

\* the quote is computed from a price of this sub-table
PricedFrom(finish) ==
    \E base \in TablePrices(RetailOf(ProviderIn)[finish]) :
        p_quote.adj_usd = base * CONDITION_MULTIPLIERS(Upper(p_in.condition))

\* every price of this sub-table is a number
AllNumeric(finish) ==
    \A d \in DOMAIN RetailOf(ProviderIn)[finish] : RetailOf(ProviderIn)[finish][d].num

\* C15: the bulk resolver prices from the requested finish sub-table (foil when
\* is_foil, normal otherwise) whenever it is present and non-empty, from the
\* opposite one only when the requested one is missing (absent or empty), and the
\* finish selection gives absent only when both are missing.
C15_RequestedFinishFirst ==
    BulkCalled =>
        LET requested == IF p_in.is_foil THEN "foil" ELSE "normal"
            opposite == IF p_in.is_foil THEN "normal" ELSE "foil"
            chosen == IF HasFinish(requested) THEN requested ELSE opposite
        IN  /\ (HasFinish(requested) /\ IsQuote(p_quote)) => PricedFrom(requested)
            /\ (~HasFinish(requested) /\ HasFinish(opposite) /\ IsQuote(p_quote))
                  => PricedFrom(opposite)
            /\ (~HasFinish(requested) /\ ~HasFinish(opposite)) => p_quote = NoQuote
            /\ ((HasFinish(requested) \/ HasFinish(opposite)) /\ AllNumeric(chosen)
                    /\ p_in.condition # NullStr)
                  => IsQuote(p_quote)

\* a foil request answered from the foil sub-table although the normal one holds
\* another price
C15_Witness ==
    /\ BulkCalled
    /\ IsQuote(p_quote)
    /\ p_in.is_foil
    /\ HasFinish("foil") /\ HasFinish("normal")
    /\ PricedFrom("foil") /\ ~PricedFrom("normal")

\* the date-to-price table the bulk resolver selected
TableIn ==
    LET requested == IF p_in.is_foil THEN "foil" ELSE "normal"
        opposite == IF p_in.is_foil THEN "normal" ELSE "foil"
    IN  IF HasFinish(requested) THEN RetailOf(ProviderIn)[requested]
        ELSE IF HasFinish(opposite) THEN RetailOf(ProviderIn)[opposite]
        ELSE <<>>

\* C16: within the selected finish sub-table the base USD price is the price
\* stored under the maximum date key; a non-numeric price at that date yields
\* absent.
C16_LatestDate ==
    (BulkCalled /\ ~Falsy(TableIn)) =>
        \E last \in DOMAIN TableIn :
            /\ \A d \in DOMAIN TableIn : d <= last
            /\ IF TableIn[last].num
               THEN /\ p_in.condition # NullStr => IsQuote(p_quote)
                    /\ IsQuote(p_quote) =>
                          p_quote.adj_usd = TableIn[last].cents
                                              * CONDITION_MULTIPLIERS(Upper(p_in.condition))
               ELSE p_quote = NoQuote

\* a quote from a table of two dates whose later price is the lower one
C16_Witness ==
    /\ BulkCalled
    /\ IsQuote(p_quote)
    /\ \E d1, d2 \in DOMAIN TableIn :
          /\ d1 < d2
          /\ TableIn[d1].num /\ TableIn[d2].num
          /\ TableIn[d2].cents < TableIn[d1].cents
          /\ p_quote.adj_usd = TableIn[d2].cents * CONDITION_MULTIPLIERS(Upper(p_in.condition))

\* the bulk resolver was called for a printing priced by cardkingdom at 2.50 USD
\* (normal finish, dated 2024-01-01), not foil, with exchange rate 900,
\* discount 0 and floor 500
ScenarioA ==
    /\ BulkCalled
    /\ p_in.price_entry = [paper |-> [cardkingdom |-> Retail([normal |-> (Date1 :> Num(250))])]]
    /\ ~p_in.is_foil
    /\ USD_TO_CLP = 900
    /\ GLOBAL_DISCOUNT_PERCENT = 0
    /\ PRICE_MIN_CLP = 500

\* C17: in that scenario condition NM yields the USD reference price "2.50", the
\* local price 2250 and the provider cardkingdom; condition HP yields "1.50"
\* and 1350.
C17_ScenarioPrices ==
    ScenarioA =>
        /\ p_in.condition = NM =>
              /\ IsQuote(p_quote)
              /\ FormattedUsd(p_quote.adj_usd) = {250}
              /\ RoundedClp(p_quote.adj_clp) = {2250}
              /\ p_quote.source = "cardkingdom"
        /\ p_in.condition = HP =>
              /\ IsQuote(p_quote)
              /\ FormattedUsd(p_quote.adj_usd) = {150}
              /\ RoundedClp(p_quote.adj_clp) = {1350}
              /\ p_quote.source = "cardkingdom"

\* the scenario with condition HP, priced at 1350
C17_Witness ==
    /\ ScenarioA
    /\ p_in.condition = HP
    /\ IsQuote(p_quote)
    /\ p_quote.adj_clp = 1350 * ClpUnit

\* the row has a name and a set, its name/edition pair is absent from the
\* printing index or from the price table, and the live service, asked, has no
\* record of it
Unresolvable(i) ==
    /\ ~MarkedManual(i)
    /\ Strip(csv_rows[i].name) # <<>> /\ Strip(csv_rows[i].set) # <<>>
    /\ ~log[i].bulk_called
    /\ log[i].live_requests = 1
    /\ log[i].no_record

\* C18: a row absent from the printing index (or the price table) for which the
\* live service has no record ends with empty price_usd_ref, price_clp and
\* price_source, is counted exactly once as without price, raises no exception,
\* and the loop goes on to the next row.
C18_UnresolvableRowCleared ==
    /\ \A i \in Processed :
          Unresolvable(i) =>
              /\ log[i].kind = "cleared"
              /\ rows[i].price_usd_ref = <<>>
              /\ rows[i].price_clp = <<>>
              /\ rows[i].price_source = <<>>
              /\ pos > i
    /\ without_price = Cardinality({i \in Processed : log[i].kind = "cleared"})
    /\ updated = Cardinality({i \in Processed : log[i].kind = "priced"})
    /\ rpc = "loop" => pos = Len(log) + 1

\* an unresolvable row that carried a source label, cleared and followed by a
\* row that was priced
C18_Witness ==
    \E i, j \in Processed :
        /\ i < j
        /\ Unresolvable(i)
        /\ log[i].uuid = None
        /\ csv_rows[i].price_source # <<>>
        /\ rows[i].price_source = <<>>
        /\ log[j].kind = "priced"
        /\ without_price = 1


----------------------------------------------------------------------------
(* Claims about choose_best_scryfall_card *)

\* the candidates the loop does not skip
NonTokens == {k \in DOMAIN candidates : Lower(OrEmpty(candidates[k].set_type)) # Str_token}

\* the parts of the score the two readings share: set and language compared
\* without regard to case, and the set type
SharedScore(k) ==
    LET card == candidates[k]
    IN  (IF Lower(OrEmpty(card.set)) = Lower(OrEmpty(c_req.set_code)) THEN 10 ELSE 0)
      + (IF Lower(OrEmpty(card.lang)) = Lower(OrEmpty(c_req.lang)) THEN 5 ELSE 0)
      + (IF Lower(OrEmpty(card.set_type)) \in {Str_core, Str_expansion} THEN 1 ELSE 0)

\* NonEmptyPrice and AnyCurrencyScore state the score as claim C19 words it;
\* they are not in the source.
\* a price field that is present and not the empty string
NonEmptyPrice(v) == v.kind \in {"num", "text"}

\* +3 for any non-empty price in any currency
AnyCurrencyScore(k) ==
    SharedScore(k)
      + (IF \E f \in DOMAIN candidates[k].prices : NonEmptyPrice(candidates[k].prices[f])
         THEN 3 ELSE 0)

\* +3 for a usd or usd_foil price that is a number
UsdScore(k) ==
    SharedScore(k)
      + (IF candidates[k].prices.usd.kind = "num" \/ candidates[k].prices.usd_foil.kind = "num"
         THEN 3 ELSE 0)

\* the result is the first non-token candidate of maximum score, or absent
ReturnsFirstMax(Score(_)) ==
    IF NonTokens = {} THEN best = NoCard
    ELSE \E k \in NonTokens :
            /\ best = candidates[k]
            /\ \A j \in NonTokens : Score(j) <= Score(k) /\ (j < k => Score(j) < Score(k))

\* C19 as stated: the result is the first-seen non-token candidate of maximum
\* score, the score giving +3 for any non-empty price in any currency; absent
\* when no candidate remains.
C19_AnyCurrencyScore ==
    cpc = "done" => ReturnsFirstMax(AnyCurrencyScore)

\* C19 amended: the result is the first-seen non-token candidate of maximum
\* score, where score = 10 if the set code matches + 5 if the language matches
\* + 3 if the usd or the usd_foil price is a number + 1 if the set type is core
\* or expansion; tokens are never returned and the result is absent when no
\* candidate remains.
C19_UsdScore ==
    cpc = "done" => ReturnsFirstMax(UsdScore)

\* the first candidate is priced in eur only and matches set and language, the
\* second has no price at all and is returned for its set type
C19_Witness ==
    /\ cpc = "done"
    /\ Len(candidates) = 2
    /\ NonTokens = {1, 2}
    /\ candidates[1].prices.eur.kind = "num"
    /\ candidates[1].prices.usd.kind = "absent"
    /\ candidates[1].prices.usd_foil.kind = "absent"
    /\ SharedScore(1) = 15
    /\ SharedScore(2) = 16
    /\ best.id = 2

----------------------------------------------------------------------------
(* Claims about build_inventory *)

\* the rows of b_new_rows that were built from an image in this run
BuiltRows == 1..Len(b_priced)

\* the image file the k-th built row was made of
ImageOf(k) == CHOOSE f \in {b_images[i] : i \in DOMAIN b_images} : f.image_name = b_new_rows[k].image_url

\* the catalog entry the k-th built row was made of
CardOf(k) == b_catalog[<<ImageOf(k).info.name_raw, ImageOf(k).info.set_code, ImageOf(k).info.lang>>]

\* the catalog entry lists a foil finish: in its finishes, or by its foil flag
ListsFoil(card) == (\E i \in DOMAIN card.finishes : card.finishes[i] = Str_foil) \/ card.foil = "true"

\* the k-th built row carries the non-foil reference price
PricedAsNonFoil(k) ==
    \E u \in RoundChoices(CardOf(k).prices.usd.cents
                            * PhotoConditionMultipliers(ImageOf(k).info.condition), 10) :
        b_new_rows[k].price_usd_ref = NumStr(u)

\* C20: the foil flag build_inventory prices with is the one it writes to the
\* row, and it is true only if the filename's flag was true and the catalog
\* entry lists a foil finish; a flagged foil that the entry does not
\* corroborate is priced as non-foil, and a non-foil flag is never upgraded.
C20_FoilOnlyIfCorroborated ==
    \A k \in BuiltRows :
        /\ b_new_rows[k].is_foil \in {Str_true, Str_false}
        /\ b_priced[k].is_foil <=> (b_new_rows[k].is_foil = Str_true)
        /\ b_new_rows[k].is_foil = Str_true =>
              ImageOf(k).info.is_foil /\ ListsFoil(CardOf(k))
        /\ (ImageOf(k).info.is_foil /\ ~ListsFoil(CardOf(k))
                /\ CardOf(k).prices.usd.kind = "num" /\ CardOf(k).prices.usd.cents > 0)
              => PricedAsNonFoil(k)

\* a run that wrote a row for a foil-named image whose entry lists no foil
\* finish and has both prices, and a row for a non-foil image whose entry
\* exists in foil only
C20_Witness ==
    /\ bpc = "done"
    /\ \E k \in BuiltRows :
          /\ ImageOf(k).info.is_foil
          /\ ~ListsFoil(CardOf(k))
          /\ CardOf(k).prices.usd.kind = "num"
          /\ CardOf(k).prices.usd_foil.kind = "num"
          /\ b_new_rows[k].is_foil = Str_false
          /\ PricedAsNonFoil(k)
    /\ \E k \in BuiltRows :
          /\ ~ImageOf(k).info.is_foil
          /\ ListsFoil(CardOf(k))
          /\ CardOf(k).finishes = <<Str_foil>>
          /\ b_new_rows[k].is_foil = Str_false

----------------------------------------------------------------------------
(* Spec: a row's output against the rest of the batch *)

\* a cell as csv.DictWriter writes it: None becomes the empty cell
WriteCell(v) == IF v = NullStr THEN <<>> ELSE v

\* a row as writer.writerows puts it in the file
WriteRow(row) == [h \in DOMAIN row |-> WriteCell(row[h])]

\* the rows of the inventory file once the run has ended: the file is written
\* once, after the last row; a run that raised leaves it as it was read
FileRows == IF rpc = "done" THEN [k \in DOMAIN rows |-> WriteRow(rows[k])] ELSE csv_rows

\* the answers the live service can give to a row
AnswersFor(row) ==
    IF RowOutcome(row, NoResponse).live_requests = 1
    THEN RunLiveResponses ELSE {NoResponse}

\* the rows one iteration of the loop can make of a row, given the row, the
\* index, the price table and the live answer; a row whose own iteration
\* raises is left as it was read
IterationResults(row, resp) ==
    LET o == RowOutcome(row, resp)
    IN  CASE o.kind = "manual" -> {row}
          [] o.kind = "raised" -> {row}
          [] o.kind = "cleared" -> {Cleared(row)}
          [] o.kind = "priced" ->
                { [row EXCEPT !.price_usd_ref = NumField(usd),
                              !.price_clp = NumField(clp),
                              !.price_source = SourceChars(o.quote.source)] :
                    usd \in FormattedUsd(o.quote.adj_usd),
                    clp \in RoundedClp(o.quote.adj_clp) }

\* every output a row can get on its own inputs, as the file holds it: written
\* by the run that ended, as it was read when the row's own iteration raises
OwnResults(row) ==
    UNION {IF RowOutcome(row, resp).kind = "raised"
           THEN {row}
           ELSE {WriteRow(r) : r \in IterationResults(row, resp)} : resp \in AnswersFor(row)}

\* C21: the price fields a run leaves for a row depend only on that row's own
\* fields, the index, the price table and the live answer for that row: once
\* the run has ended, every row of the file is one of the outputs its own
\* inputs give, whatever other rows the batch holds.
C21_OutputFromOwnInputs ==
    (rpc \in {"done", "crashed"} /\ pos >= 1) =>
        \A k \in DOMAIN csv_rows : FileRows[k] \in OwnResults(csv_rows[k])

----------------------------------------------------------------------------
(* Spec: failed live lookups *)

\* C22: a row is sent to the live service at most once in a run, also when the
\* request fails (network failure, timeout, status other than 200): the
\* failed lookup is not repeated, the row is left without price and the loop
\* goes on with the next row.
C22_OneRequestNoRetry ==
    \A k \in DOMAIN log :
        /\ log[k].live_requests <= 1
        /\ log[k].live_calls <= 1
        /\ log[k].failed =>
              /\ log[k].live_requests = 1
              /\ log[k].kind = "cleared"
              /\ rows[k] = Cleared(csv_rows[k])
              /\ pos = Len(log) + 1
              /\ rpc = "crashed" => k < Len(log)

\* a finished run whose first row met a network failure and whose second row,
\* asked after it, met a status other than 200 or was priced by the service
C22_Witness ==
    /\ rpc = "done"
    /\ Len(log) = 2
    /\ log[1].failed /\ ~log[1].no_record
    /\ log[2].live_requests = 1
    /\ log[2].no_record \/ log[2].kind = "priced"
    /\ updated + without_price = 2

----------------------------------------------------------------------------
(* SpecLabel: the foil segment of the new file name *)

\* C23: an image is renamed with the NM_FOIL condition segment only if
\* refine_foil_decision returned true for it; a card whose catalog entry does
\* not exist in foil, or whose foil confidence is below the threshold, never
\* gets a foil file name.
C23_FoilNameOnlyIfRefined ==
    \A k \in DOMAIN l_moved :
        l_moved[k].cond_segment = Str_NM_FOIL => l_moved[k].is_foil

----------------------------------------------------------------------------
(* SpecBuild: the edition, the ids and the rows kept across a rebuild *)

\* C24: the set column of every row build_inventory makes is the set code of
\* the file name, upper-cased, and empty when the file name carries no set; it
\* is never taken from the catalog entry.
C24_SetFromFilename ==
    \A k \in BuiltRows : b_new_rows[k].set = Upper(ImageOf(k).info.set_code)

\* the names of the image files under the processed folder
PresentImages == {b_images[i].image_name : i \in DOMAIN b_images}

\* a row of the previous inventory that names an image file which is gone
Gone(k) == Strip(b_prev[k].image_url) # <<>> /\ Strip(b_prev[k].image_url) \notin PresentImages

\* the row is in the inventory file, marked removed and otherwise as it was
KeptAsRemoved(k) ==
    \E j \in DOMAIN b_inventory : b_inventory[j] = [b_prev[k] EXCEPT !.status = Str_removed]

\* C25: after a run, every row of the previous inventory whose image
\* file is gone is in the new inventory with status removed and its other
\* fields unchanged.
C25_GoneRowsKept ==
    (bpc = "done" /\ b_dir_exists) =>
        \A k \in DOMAIN b_prev : Gone(k) => KeptAsRemoved(k)

\* the rows of the previous inventory that name the image of the k-th built row
PrevRowsOf(k) == {j \in DOMAIN b_prev : Strip(b_prev[j].image_url) = b_new_rows[k].image_url}

\* the built rows whose image had no row in the previous inventory
NewRows == {k \in BuiltRows : PrevRowsOf(k) = {}}

\* C26: a built row whose image had a row in the previous inventory keeps that
\* row's id and status, the status being 'available' only when it was empty; a
\* built row whose image had none gets an id greater than every id of the
\* previous inventory, and two such rows get different ids.
C26_IdsKeptOrFresh ==
    \A k \in BuiltRows :
        IF PrevRowsOf(k) # {}
        THEN LET old == b_prev[MaxOf(PrevRowsOf(k))]
             IN  /\ b_new_rows[k].id = old.id
                 /\ b_new_rows[k].status = IF old.status = <<>> THEN Str_available
                                           ELSE old.status
        ELSE /\ b_new_rows[k].id.kind = "num"
             /\ \A j \in DOMAIN b_prev :
                   (b_prev[j].id.kind = "num" /\ Strip(b_prev[j].image_url) # <<>>)
                       => b_new_rows[k].id.cents > b_prev[j].id.cents
             /\ \A m \in NewRows : m # k => b_new_rows[m].id # b_new_rows[k].id

\* a finished run that kept the id of a row with an empty status and gave a
\* new image an id above the ids of the previous inventory
C26_Witness ==
    /\ bpc = "done"
    /\ \E k \in BuiltRows :
          /\ PrevRowsOf(k) # {}
          /\ b_prev[MaxOf(PrevRowsOf(k))].status = <<>>
          /\ b_new_rows[k].id = NumStr(2)
          /\ b_new_rows[k].status = Str_available
    /\ \E k \in NewRows : b_new_rows[k].id = NumStr(8)

\* no two rows of the file carry the same non-empty id
UniqueIds(file) ==
    \A i, j \in DOMAIN file :
        (i # j /\ ~FalsyStr(file[i].id)) => file[i].id # file[j].id

\* C28: when the ids of the previous inventory are unique, no two rows of the
\* inventory a run writes share a non-empty id, also when files of the same
\* name lie in different seller folders.
C28_UniqueIds ==
    (bpc = "done" /\ b_dir_exists /\ UniqueIds(b_prev)) => UniqueIds(b_inventory)

\* C29: every row of the previous inventory whose image file is still under
\* the processed folder is in the rebuilt inventory with the same id, also
\* when the file name does not parse or the catalog lookup fails in this run.
C29_PresentRowsKept ==
    (bpc = "done" /\ b_dir_exists) =>
        \A k \in DOMAIN b_prev :
            Strip(b_prev[k].image_url) \in PresentImages =>
                \E j \in DOMAIN b_inventory :
                    /\ b_inventory[j].image_url = Strip(b_prev[k].image_url)
                    /\ b_inventory[j].id = b_prev[k].id

----------------------------------------------------------------------------
(* SpecRebuild: ids across runs *)

\* C27: over runs of build_inventory with images added and deleted in between,
\* an id once given to an image is never given to another image.
C27_IdsNeverReused ==
    \A p, q \in b_ids : p[1] = q[1] => p[2] = q[2]

====
